---- MODULE Spec2Model ----
(***************************************************************************)
(* Model of the WhatsApp ZIP viewer: the lazy media loader (MediaLoader),  *)
(* the message parser (parseWhatsAppText) and the archive splitter         *)
(* (splitZipByTimeRangeAndMedia).  Strings are TLA+ strings; TLC evaluates *)
(* Len, SubSeq and \o on them, so a character is SubSeq(s, i, i).          *)
(***************************************************************************)
EXTENDS Integers, Sequences, FiniteSets, TLC

VARIABLES
  mediaIndex,       \* MediaLoader.mediaIndex: insertion-ordered Map, a sequence of [key, entries]
  loadedBlobs,      \* MediaLoader.loadedBlobs: filename -> LoadedMedia
  loadingPromises,  \* MediaLoader.loadingPromises: filename -> promise (the id of its task)
  activeTasks,      \* MediaLoader.activeTasks
  taskQueue,        \* MediaLoader.taskQueue: the queued task closures, oldest first
  tasks,            \* the unsettled task closures / promises created by loadMedia, by id
  objectURLs,       \* the blob URLs created by URL.createObjectURL and not yet revoked
  cleanups,         \* history: the number of cleanup() calls so far
  last,             \* what the last step showed its caller: a return value, a settled promise
  call,             \* the call of a pure function under way: its name and arguments
  returned,         \* what that call returned, Nothing before it returns
  views             \* the mounted LazyMediaComponents: their state, by component

loaderVars == <<mediaIndex, loadedBlobs, loadingPromises, activeTasks, taskQueue,
                tasks, objectURLs, cleanups, last>>

pureVars == <<call, returned>>

vars == <<loaderVars, pureVars, views>>

(***************************************************************************)
(* Strings                                                                 *)
(***************************************************************************)
CharAt(s, i) == SubSeq(s, i, i)

UpperChars == "ABCDEFGHIJKLMNOPQRSTUVWXYZ"
LowerChars == "abcdefghijklmnopqrstuvwxyz"

\* String.prototype.toLowerCase on one character (ASCII letters).
LowerChar(c) ==
  IF \E k \in 1..Len(UpperChars) : CharAt(UpperChars, k) = c
    THEN CharAt(LowerChars, CHOOSE k \in 1..Len(UpperChars) : CharAt(UpperChars, k) = c)
    ELSE c

RECURSIVE toLowerCase(_)
toLowerCase(s) ==
  IF s = "" THEN "" ELSE LowerChar(CharAt(s, 1)) \o toLowerCase(SubSeq(s, 2, Len(s)))

\* String.prototype.includes
includes(s, sub) ==
  \E i \in 0..(Len(s) - Len(sub)) : SubSeq(s, i + 1, i + Len(sub)) = sub

\* String.prototype.endsWith
endsWith(s, suffix) ==
  Len(suffix) <= Len(s) /\ SubSeq(s, Len(s) - Len(suffix) + 1, Len(s)) = suffix

\* String.prototype.split with a one-character separator: the sequence of parts.
RECURSIVE split(_, _)
split(s, sep) ==
  IF \E i \in 1..Len(s) : CharAt(s, i) = sep
    THEN LET i == CHOOSE k \in 1..Len(s) :
                    /\ CharAt(s, k) = sep
                    /\ \A j \in 1..(k - 1) : CharAt(s, j) # sep
         IN <<SubSeq(s, 1, i - 1)>> \o split(SubSeq(s, i + 1, Len(s)), sep)
    ELSE <<s>>

\* Array.prototype.pop on the result of a split: its last part.
pop(parts) == parts[Len(parts)]

\* TLA+ strings are ASCII.  These characters stand for the code points named;
\* no input uses them as themselves.
LRM == "~"      \* U+200E LEFT-TO-RIGHT MARK
RLM == "^"      \* U+200F RIGHT-TO-LEFT MARK
BOM == "#"      \* U+FEFF ZERO WIDTH NO-BREAK SPACE
EnDash == "="   \* U+2013 EN DASH

Chars(s) == {CharAt(s, i) : i \in 1..Len(s)}

\* The regular-expression classes \d, \s and [A-Za-z0-9]; what . does not match.
DigitChars == Chars("0123456789")
SpaceChars == {" ", "\t", "\n", "\r", "\f", BOM}
AlnumChars == Chars(UpperChars) \cup Chars(LowerChars) \cup DigitChars
LineTerminators == {"\n", "\r"}

\* Number(s) of a string of decimal digits; Number("") is 0.
RECURSIVE Number(_)
Number(s) ==
  IF s = "" THEN 0
  ELSE 10 * Number(SubSeq(s, 1, Len(s) - 1))
         + (CHOOSE n \in 0..9 : CharAt("0123456789", n + 1) = CharAt(s, Len(s)))

\* String.prototype.trim
RECURSIVE trimStart(_)
trimStart(s) ==
  IF s # "" /\ CharAt(s, 1) \in SpaceChars THEN trimStart(SubSeq(s, 2, Len(s))) ELSE s

RECURSIVE trimEnd(_)
trimEnd(s) ==
  IF s # "" /\ CharAt(s, Len(s)) \in SpaceChars
    THEN trimEnd(SubSeq(s, 1, Len(s) - 1)) ELSE s

trim(s) == trimEnd(trimStart(s))

\* String.prototype.split(/\r?\n/): split at every "\n", a "\r" right before it
\* belongs to the separator.
splitLines(s) ==
  LET parts == split(s, "\n")
  IN [k \in 1..Len(parts) |->
        IF k < Len(parts) /\ endsWith(parts[k], "\r")
          THEN SubSeq(parts[k], 1, Len(parts[k]) - 1)
          ELSE parts[k]]

\* Array.prototype.join
RECURSIVE join(_, _)
join(parts, sep) ==
  IF Len(parts) = 0 THEN ""
  ELSE IF Len(parts) = 1 THEN parts[1]
  ELSE parts[1] \o sep \o join(Tail(parts), sep)

(***************************************************************************)
(* Regular expressions.  A pattern is a tree of nodes.  A state of a match *)
(* is the position the match started at, the position reached (both        *)
(* 0-based) and the captures so far.  outcomes gives the states a node can *)
(* reach from a state, in the order the backtracking matcher of ECMAScript *)
(* tries them: alternatives left to right, greedy quantifiers the longest  *)
(* first.  The match of a pattern is the first outcome from the leftmost   *)
(* start that has one.                                                     *)
(***************************************************************************)
Chr(set) == [t |-> "set", s |-> set]                      \* [...] and one character
NotChr(set) == [t |-> "nset", s |-> set]                  \* [^...] and .
Cat(rs) == [t |-> "cat", r |-> rs]                        \* r1 r2 ...
Alt(rs) == [t |-> "alt", r |-> rs]                        \* r1 | r2 | ...
Rep(r, lo, hi) == [t |-> "rep", r |-> r, lo |-> lo, hi |-> hi]   \* r{lo,hi}
Many(r, lo) == [t |-> "many", r |-> r, lo |-> lo]         \* r{lo,}: r* and r+
Grp(n, r) == [t |-> "grp", n |-> n, r |-> r]              \* capturing group n
Bol == [t |-> "bol"]                                      \* ^
Eol == [t |-> "eol"]                                      \* $
Opt(r) == Rep(r, 0, 1)                                    \* r?
Lazy(r, lo) == [t |-> "lazy", r |-> r, lo |-> lo]         \* r{lo,}? over a class r
Lit(str) == [t |-> "lit", s |-> str, i |-> FALSE]         \* literal text
LitI(str) == [t |-> "lit", s |-> str, i |-> TRUE]         \* literal text under the i flag
Digit == Chr(DigitChars)
Space == Chr(SpaceChars)
Dot == NotChr(LineTerminators)
Word == Chr(AlnumChars \cup {"_"})                        \* \w

NoMatch == [ok |-> FALSE]

\* Whether the class c matches the character ch.
accepts(c, ch) == IF c.t = "set" THEN ch \in c.s ELSE ch \notin c.s

\* How many characters of s from position i on the class c matches in a row, at
\* most max: what a greedy quantifier over c takes first.
run(c, s, i, max) ==
  CHOOSE n \in 0..max :
    /\ i + n <= Len(s)
    /\ \A k \in 1..n : accepts(c, CharAt(s, i + k))
    /\ n = max \/ i + n = Len(s) \/ ~accepts(c, CharAt(s, i + n + 1))

\* The one element of a one-element set: Only({e(x) : x \in {v}}) is e(v) with
\* v evaluated once.
Only(S) == CHOOSE x \in S : TRUE

NonEmpty(seq) == Len(seq) > 0

\* The concatenation of the sequences of seqs.
RECURSIVE Concat(_)
Concat(seqs) == IF Len(seqs) = 0 THEN <<>> ELSE Head(seqs) \o Concat(Tail(seqs))

Flatten(seqs) == Concat(SelectSeq(seqs, NonEmpty))

\* The literal text of the node at the position of st.
literally(node, s, st) ==
  LET to == st.end + Len(node.s)
      here == SubSeq(s, st.end + 1, to)
  IN IF to <= Len(s) /\ (IF node.i THEN toLowerCase(here) = toLowerCase(node.s)
                                  ELSE here = node.s)
       THEN <<[st EXCEPT !.end = to]>> ELSE <<>>

\* A quantifier over a character class that matches n characters in a row: it
\* takes n, n - 1, ..., lo of them.
shrinking(st, n, lo) == [k \in 1..(n - lo + 1) |-> [st EXCEPT !.end = @ + n + 1 - k]]

\* A lazy quantifier over a character class that matches n characters in a
\* row: it takes lo, lo + 1, ..., n of them.
growing(st, n, lo) == [k \in 1..(n - lo + 1) |-> [st EXCEPT !.end = @ + lo + k - 1]]

\* The outcomes outs of the body of group n entered at position from.
capture(outs, n, from) ==
  [j \in 1..Len(outs) |-> [outs[j] EXCEPT !.caps[n] = <<from, outs[j].end>>]]

RECURSIVE outcomes(_, _, _), through(_, _, _), more(_, _, _, _)
\* The outcomes of the nodes parts one after the other from each of states.
through(parts, s, states) ==
  IF Len(parts) = 0 \/ Len(states) = 0 THEN states
  ELSE Only({through(Tail(parts), s, next) :
               next \in {Flatten([j \in 1..Len(states) |->
                                    outcomes(Head(parts), s, states[j])])}})

\* A quantifier over a node that is not a character class, c iterations done:
\* one more iteration first, none after.  An iteration that matches nothing
\* ends the quantifier once lo iterations are done.
more(node, s, st, c) ==
  LET hi == IF node.t = "many" THEN Len(s) ELSE node.hi
      inner == SelectSeq(outcomes(node.r, s, st),
                         LAMBDA o : o.end > st.end \/ c < node.lo)
  IN (IF c < hi
        THEN Flatten([j \in 1..Len(inner) |-> more(node, s, inner[j], c + 1)])
        ELSE <<>>)
     \o (IF c >= node.lo THEN <<st>> ELSE <<>>)

outcomes(node, s, st) ==
  CASE node.t \in {"set", "nset"} ->
         IF st.end < Len(s) /\ accepts(node, CharAt(s, st.end + 1))
           THEN <<[st EXCEPT !.end = @ + 1]>> ELSE <<>>
    [] node.t = "lit" -> literally(node, s, st)
    [] node.t = "cat" -> through(node.r, s, <<st>>)
    [] node.t = "alt" -> Flatten([j \in 1..Len(node.r) |-> outcomes(node.r[j], s, st)])
    [] node.t \in {"rep", "many"} ->
         IF node.r.t \in {"set", "nset"}
           THEN shrinking(st, run(node.r, s, st.end,
                                  IF node.t = "many" THEN Len(s) ELSE node.hi),
                          node.lo)
           ELSE more(node, s, st, 0)
    [] node.t = "lazy" -> growing(st, run(node.r, s, st.end, Len(s)), node.lo)
    [] node.t = "grp" ->
         Only({capture(outs, node.n, st.end) : outs \in {outcomes(node.r, s, st)}})
    [] node.t = "bol" -> IF st.end = 0 THEN <<st>> ELSE <<>>
    [] node.t = "eol" -> IF st.end = Len(s) THEN <<st>> ELSE <<>>

\* A regular expression literal: its pattern and the number of its groups.
RegExp(node, groups) == [node |-> node, groups |-> groups]

\* The match that is the first outcome o of the leftmost start that has one.
matched(o, s) == [ok |-> TRUE, input |-> s, index |-> o.start, end |-> o.end, caps |-> o.caps]

\* RegExp.prototype.exec and test (no g flag): the match at the leftmost
\* position that has one.
exec(re, s) ==
  Only({IF Len(hits) = 0 THEN NoMatch ELSE matched(hits[1][1], s) :
          hits \in {SelectSeq([j \in 1..(Len(s) + 1) |->
                                 outcomes(re.node, s,
                                          [start |-> j - 1, end |-> j - 1,
                                           caps |-> [n \in 1..re.groups |-> <<>>]])],
                              NonEmpty)}})

test(re, s) == exec(re, s).ok

\* exec of a pattern with the g flag and lastIndex = from: the match at the
\* leftmost position from on that has one.
execFrom(re, s, from) ==
  Only({IF Len(hits) = 0 THEN NoMatch ELSE matched(hits[1][1], s) :
          hits \in {SelectSeq([j \in 1..(Len(s) + 1 - from) |->
                                 outcomes(re.node, s,
                                          [start |-> from + j - 1, end |-> from + j - 1,
                                           caps |-> [n \in 1..re.groups |-> <<>>]])],
                              NonEmpty)}})

\* while ((m = re.exec(s)) !== null) with the g flag: the matches in order, each
\* search from the end of the match before (lastIndex).  No pattern of the
\* program that is used this way matches the empty string.
RECURSIVE execAll(_, _, _)
execAll(re, s, from) ==
  Only({IF m.ok THEN <<m>> \o execAll(re, s, m.end) ELSE <<>> :
          m \in {IF from <= Len(s) THEN execFrom(re, s, from) ELSE NoMatch}})

\* String.prototype.replace(re, "") without the g flag: the first match removed.
removeFirst(re, s) ==
  Only({IF m.ok THEN SubSeq(s, 1, m.index) \o SubSeq(s, m.end + 1, Len(s)) ELSE s :
          m \in {exec(re, s)}})

\* m[n] of a match: the text of group n, "" when the group took no part
\* (undefined; the code only tests it for truthiness).  m[0] is the whole match.
group(m, n) ==
  IF n = 0 THEN SubSeq(m.input, m.index + 1, m.end)
  ELSE IF m.caps[n] = <<>> THEN ""
  ELSE SubSeq(m.input, m.caps[n][1] + 1, m.caps[n][2])

(***************************************************************************)
(* Date: new Date(year, monthIndex, day, hours, minutes, seconds) in the   *)
(* local time zone, taken to have a constant offset.  A Date is its day    *)
(* number from 1970-01-01 and the second in that day; getTime() orders     *)
(* Dates by that pair.                                                     *)
(***************************************************************************)
\* The day number of the civil date y-m-d, m in 1..12 (proleptic Gregorian).
dayFromCivil(y, m, d) ==
  LET yy == IF m <= 2 THEN y - 1 ELSE y
      era == yy \div 400
      yoe == yy - era * 400
      mp == IF m > 2 THEN m - 3 ELSE m + 9
      doy == (153 * mp + 2) \div 5 + d - 1
      doe == yoe * 365 + yoe \div 4 - yoe \div 100 + doy
  IN era * 146097 + doe - 719468

\* MakeDay / MakeTime of ECMAScript: out-of-range fields carry over, a year
\* 0..99 means 1900 + year.
Date(year, monthIndex, day, hours, minutes, seconds) ==
  LET yr == IF year \in 0..99 THEN 1900 + year ELSE year
      secs == hours * 3600 + minutes * 60 + seconds
  IN [day |-> dayFromCivil(yr + (monthIndex \div 12), (monthIndex % 12) + 1, 1) + day - 1
                + secs \div 86400,
      sec |-> secs % 86400]

\* a.getTime() <= b.getTime()
timeLeq(a, b) == a.day < b.day \/ (a.day = b.day /\ a.sec <= b.sec)

(***************************************************************************)
(* MediaLoader                                                             *)
(***************************************************************************)
concurrencyLimit == 5

MaxTasks == 7      \* unsettled tasks plus live blob URLs never exceed this
MaxCleanups == 2   \* cleanup() is called at most this many times in one behaviour

\* The archives that can be uploaded: Object.entries(zip.files) of each.
Archives ==
  << << [name |-> "Media/", dir |-> TRUE],
        [name |-> "_chat.txt", dir |-> FALSE],
        [name |-> "Media/aa.jpg", dir |-> FALSE],
        [name |-> "Media/bb.mp4", dir |-> FALSE],
        [name |-> "cc.pdf", dir |-> FALSE],
        [name |-> "dd.webp", dir |-> FALSE],
        [name |-> "ee.ogg", dir |-> FALSE],
        [name |-> "ff.PNG", dir |-> FALSE],
        [name |-> "notes.md", dir |-> FALSE] >> >>

\* Archives whose entries have names with several dots and names that share a
\* basename, and the filenames asked for when one of them is viewed.
MaterializeArchives ==
  << << [name |-> "Media/", dir |-> TRUE],
        [name |-> "_chat.txt", dir |-> FALSE],
        [name |-> "Media/photo.jpg", dir |-> FALSE],
        [name |-> "Other/photo.jpg", dir |-> FALSE],
        [name |-> "IMG-1.2024.jpeg", dir |-> FALSE] >>,
     << [name |-> "song.mp3", dir |-> FALSE],
        [name |-> "rev1.pdf", dir |-> FALSE] >> >>

MaterializeRequests == {"photo", "photo.gif", "v1.2.pdf", "zz.gif"}

\* The filenames the viewer asks the loader for: in a run with every operation
\* of the loader, and in a session that views one archive and never cleans up.
Requests == {"aa.jpg", "zz.gif"}
SessionRequests == {"aa.jpg", "bb.mp4", "cc.pdf", "dd.webp", "ee.ogg", "ff.PNG", "zz.gif"}

NoEntry == [fullPath |-> "", zipEntry |-> [zip |-> 0, name |-> ""]]
Null == [null |-> TRUE]
Nothing == [op |-> "none"]

\* Map.has / Map.get / get-or-create-then-push on the insertion-ordered index.
indexHas(index, key) == \E k \in 1..Len(index) : index[k].key = key

indexGet(index, key) ==
  IF indexHas(index, key)
    THEN index[CHOOSE k \in 1..Len(index) : index[k].key = key].entries
    ELSE <<>>

indexPush(index, key, entry) ==
  IF indexHas(index, key)
    THEN [k \in 1..Len(index) |->
            IF index[k].key = key
              THEN [index[k] EXCEPT !.entries = Append(@, entry)]
              ELSE index[k]]
    ELSE Append(index, [key |-> key, entries |-> <<entry>>])

IndexedExtensions ==
  {"jpg", "jpeg", "png", "gif", "webp", "bmp", "heic", "heif", "tgs",
   "mp4", "mov", "avi", "webm", "3gp",
   "mp3", "wav", "ogg", "m4a", "aac", "opus",
   "pdf", "doc", "docx", "xls", "xlsx", "ppt", "pptx"}

\* One iteration of the loop of buildMediaIndex over [filename, zipEntry].
indexEntry(index, zip, e) ==
  IF ~e.dir /\ ~endsWith(e.name, ".txt") /\ ~endsWith(e.name, ".py")
    THEN LET extension == toLowerCase(pop(split(e.name, ".")))
             isMediaFile == extension \in IndexedExtensions
             popped == pop(split(e.name, "/"))
             justFilename == IF popped = "" THEN e.name ELSE popped
             entry == [zipEntry |-> [zip |-> zip, name |-> e.name], fullPath |-> e.name]
             withName == indexPush(index, justFilename, entry)
             nameWithoutExt == split(justFilename, ".")[1]
         IN IF isMediaFile
              THEN IF nameWithoutExt # justFilename
                     THEN indexPush(withName, nameWithoutExt, entry)
                     ELSE withName
              ELSE index
    ELSE index

RECURSIVE indexEntries(_, _, _, _)
indexEntries(index, zip, entries, k) ==
  IF k > Len(entries) THEN index
  ELSE indexEntries(indexEntry(index, zip, entries[k]), zip, entries, k + 1)

\* buildMediaIndex: the index after mediaIndex.clear() and the loop.
buildMediaIndex(zip) == indexEntries(<<>>, zip, Archives[zip], 1)

getMediaType(filename) ==
  LET extension == toLowerCase(pop(split(filename, ".")))
  IN IF extension \in {"jpg", "jpeg", "png", "gif", "webp", "bmp", "heic", "heif"}
       THEN "image"
     ELSE IF extension \in {"webp", "tgs"} /\ includes(filename, "sticker")
       THEN "sticker"
     ELSE IF extension \in {"mp3", "wav", "ogg", "m4a", "aac"}
       THEN "audio"
     ELSE IF extension \in {"mp4", "mov", "avi", "webm", "3gp"}
       THEN "video"
     ELSE "document"

\* doLoadMedia up to its await: the entry it goes on to extract, NoEntry when it
\* returns null.  Exact key first, then the first key (insertion order) that
\* contains the requested base or whose base the requested name contains.
fuzzyMatches(index, filename) ==
  {k \in 1..Len(index) :
     \/ includes(index[k].key, split(filename, ".")[1])
     \/ includes(filename, split(index[k].key, ".")[1])}

doLoadMedia(index, filename) ==
  LET mediaEntries == indexGet(index, filename)
  IN IF Len(mediaEntries) = 0
       THEN IF fuzzyMatches(index, filename) # {}
              THEN LET k == CHOOSE m \in fuzzyMatches(index, filename) :
                              \A n \in fuzzyMatches(index, filename) : m <= n
                   IN index[k].entries[1]
              ELSE NoEntry
       ELSE mediaEntries[1]

\* The archive whose messages are mapped and then viewed, the index built from
\* it (its zip number follows those of MaterializeArchives), and the filenames
\* its messages can ask the loader for.
MapArchive ==
  << [name |-> "_chat.txt", dir |-> FALSE],
     [name |-> "Media/photo.jpg", dir |-> FALSE],
     [name |-> "IMG-20240105-WA0001.jpg", dir |-> FALSE],
     [name |-> "Media/clip.mp4", dir |-> FALSE],
     [name |-> "IMG-1.jpg", dir |-> FALSE] >>

AttachIndex ==
  indexEntries(<<>>, Len(Archives) + Len(MaterializeArchives) + 1, MapArchive, 1)

AttachRequests ==
  {"photo.jpg", "photo", "photo.png", "IMG-20240105-WA0001.jpg", "IMG-20240105-WA0001",
   "clip.mp4", "clip", "IMG-1.2024.jpeg", "IMG-1", "missing.pdf", "missing"}

\* The indexes buildMediaIndex can build and what doLoadMedia finds in each (and
\* in the empty index of a new MediaLoader), evaluated once.
BuiltIndexes == [zip \in 1..Len(Archives) |-> buildMediaIndex(zip)]

\* The same for the archives with dotted names; their zip numbers follow those
\* of Archives.
MaterializeIndexes ==
  [z \in 1..Len(MaterializeArchives) |->
     indexEntries(<<>>, Len(Archives) + z, MaterializeArchives[z], 1)]

Lookups ==
  [index \in {<<>>} \cup {BuiltIndexes[zip] : zip \in 1..Len(Archives)}
               \cup {MaterializeIndexes[z] : z \in 1..Len(MaterializeArchives)}
               \cup {AttachIndex} |->
     [filename \in Requests \cup SessionRequests \cup MaterializeRequests
                    \cup AttachRequests |->
        doLoadMedia(index, filename)]]

MediaTypes ==
  [filename \in Requests \cup SessionRequests \cup MaterializeRequests
                 \cup AttachRequests |->
     getMediaType(filename)]

\* A task closure at the moment task() is called: activeTasks++ is done by the
\* caller, doLoadMedia has run up to its first await.
startedTask(index, t) ==
  LET e == Lookups[index][t.filename]
  IN [t EXCEPT !.st = IF e = NoEntry THEN "resolving" ELSE "reading", !.entry = e]

mapRemove(m, key) == [x \in (DOMAIN m) \ {key} |-> m[x]]
mapSet(m, key, val) == [x \in (DOMAIN m) \cup {key} |-> IF x = key THEN val ELSE m[x]]

\* Names for a new promise and a new blob URL: the filename and the least number
\* not in use with it.
freshId(used, filename) ==
  LET taken == {x.k : x \in {y \in used : y.f = filename}}
  IN [f |-> filename,
      k |-> CHOOSE n \in 1..(Cardinality(taken) + 1) :
              n \notin taken /\ \A m \in 1..(n - 1) : m \in taken]

InitLoader ==
  /\ views = <<>>
  /\ mediaIndex = <<>>
  /\ loadedBlobs = <<>>
  /\ loadingPromises = <<>>
  /\ activeTasks = 0
  /\ taskQueue = <<>>
  /\ tasks = <<>>
  /\ objectURLs = {}
  /\ cleanups = 0
  /\ last = Nothing

BuildMediaIndex(zip) ==
  /\ mediaIndex' = BuiltIndexes[zip]
  /\ last' = Nothing
  /\ UNCHANGED <<loadedBlobs, loadingPromises, activeTasks, taskQueue, tasks, objectURLs,
                 cleanups>>

\* Mutant of belowLimit: the ceiling test off by one.
belowLimitOffByOne(n) == n <= concurrencyLimit

\* The test of loadMedia before task(): activeTasks < concurrencyLimit.
belowLimit(n) == n < concurrencyLimit

\* Mutant of processNextTask: taskQueue.pop() in place of taskQueue.shift().
processNextTaskLifo(n, queue, tks, index) ==
  IF Len(queue) > 0 /\ n < concurrencyLimit
    THEN [activeTasks |-> n + 1,
          taskQueue |-> SubSeq(queue, 1, Len(queue) - 1),
          tasks |-> [tks EXCEPT ![queue[Len(queue)]] = startedTask(index, @)]]
    ELSE [activeTasks |-> n, taskQueue |-> queue, tasks |-> tks]

\* Mutant of processNextTask: the finally block does not call it after a failure,
\* nothing is dequeued.
processNextTaskIdle(n, queue, tks, index) ==
  [activeTasks |-> n, taskQueue |-> queue, tasks |-> tks]

\* processNextTask() as the finally block calls it, with n active tasks left, the
\* queue and the task table: taskQueue.shift() and nextTask() when there is a
\* queued task and a free slot.
processNextTask(n, queue, tks, index) ==
  IF Len(queue) > 0 /\ n < concurrencyLimit
    THEN [activeTasks |-> n + 1,
          taskQueue |-> Tail(queue),
          tasks |-> [tks EXCEPT ![Head(queue)] = startedTask(index, @)]]
    ELSE [activeTasks |-> n, taskQueue |-> queue, tasks |-> tks]

\* loadMedia(filename): cache hit, coalescing on the pending promise, or a new
\* promise whose task starts at once below the ceiling and is queued otherwise.
\* A task's gen is history: "fresh" until a cleanup() runs while it is unsettled.
LoadMedia(filename) ==
  IF filename \in DOMAIN loadedBlobs
    THEN /\ last' = [op |-> "loadMedia", filename |-> filename, kind |-> "cached",
                     media |-> loadedBlobs[filename]]
         /\ UNCHANGED <<mediaIndex, loadedBlobs, loadingPromises, activeTasks, taskQueue,
                        tasks, objectURLs, cleanups>>
  ELSE IF filename \in DOMAIN loadingPromises
    THEN /\ last' = [op |-> "loadMedia", filename |-> filename, kind |-> "promise",
                     id |-> loadingPromises[filename]]
         /\ UNCHANGED <<mediaIndex, loadedBlobs, loadingPromises, activeTasks, taskQueue,
                        tasks, objectURLs, cleanups>>
  ELSE /\ Cardinality(DOMAIN tasks) + Cardinality(objectURLs) < MaxTasks
       /\ LET id == freshId(DOMAIN tasks, filename)
              task == [filename |-> filename, st |-> "queued", entry |-> NoEntry,
                       gen |-> "fresh"]
          IN /\ IF belowLimit(activeTasks)
                  THEN /\ activeTasks' = activeTasks + 1
                       /\ tasks' = mapSet(tasks, id, startedTask(mediaIndex, task))
                       /\ taskQueue' = taskQueue
                  ELSE /\ taskQueue' = Append(taskQueue, id)
                       /\ tasks' = mapSet(tasks, id, task)
                       /\ activeTasks' = activeTasks
             /\ loadingPromises' = mapSet(loadingPromises, filename, id)
             /\ last' = [op |-> "loadMedia", filename |-> filename, kind |-> "promise",
                         id |-> id]
       /\ UNCHANGED <<mediaIndex, loadedBlobs, objectURLs, cleanups>>

\* resolve(result) and the finally block of task id: activeTasks--,
\* loadingPromises.delete(filename), processNextTask().
\* read is how the entry read ended: "ok", "failed", or "none" when none began.
finishTask(id, read, result) ==
  /\ last' = [op |-> "settled", id |-> id, filename |-> tasks[id].filename,
              read |-> read, result |-> result]
  /\ loadingPromises' = mapRemove(loadingPromises, tasks[id].filename)
  /\ LET next == processNextTask(activeTasks - 1, taskQueue, mapRemove(tasks, id),
                                 mediaIndex)
     IN /\ activeTasks' = next.activeTasks
        /\ taskQueue' = next.taskQueue
        /\ tasks' = next.tasks

\* zipEntry.async("arraybuffer") of an active task fulfils: extractBlobFromEntry
\* creates the blob URL and caches the LoadedMedia, the task resolves with it.
\* gen is history: the task's gen.
ReadOk(id) ==
  /\ id \in DOMAIN tasks
  /\ tasks[id].st = "reading"
  /\ LET filename == tasks[id].filename
         blobUrl == freshId(objectURLs, filename)
         loadedMedia == [blobUrl |-> blobUrl, filename |-> filename,
                         type |-> MediaTypes[filename],
                         gen |-> tasks[id].gen]
     IN /\ objectURLs' = objectURLs \cup {blobUrl}
        /\ loadedBlobs' = mapSet(loadedBlobs, filename, loadedMedia)
        /\ finishTask(id, "ok", loadedMedia)
  /\ UNCHANGED <<mediaIndex, cleanups>>

\* zipEntry.async("arraybuffer") of an active task rejects: the catch block.
ReadFail(id) ==
  /\ id \in DOMAIN tasks
  /\ tasks[id].st = "reading"
  /\ finishTask(id, "failed", Null)
  /\ UNCHANGED <<mediaIndex, loadedBlobs, objectURLs, cleanups>>

\* doLoadMedia found no entry and returned null: the task resumes after its await.
ResolveNotFound(id) ==
  /\ id \in DOMAIN tasks
  /\ tasks[id].st = "resolving"
  /\ finishTask(id, "none", Null)
  /\ UNCHANGED <<mediaIndex, loadedBlobs, objectURLs, cleanups>>

\* Mutant of revokeMedia: the URL is revoked, the cache entry stays.
revokeMediaKeepingEntry(blobs, urls, filename) ==
  IF filename \in DOMAIN blobs
    THEN [loadedBlobs |-> blobs, objectURLs |-> urls \ {blobs[filename].blobUrl}]
    ELSE [loadedBlobs |-> blobs, objectURLs |-> urls]

\* revokeMedia(filename) on the cache and the live blob URLs:
\* URL.revokeObjectURL and loadedBlobs.delete when the filename is cached.
revokeMedia(blobs, urls, filename) ==
  IF filename \in DOMAIN blobs
    THEN [loadedBlobs |-> mapRemove(blobs, filename),
          objectURLs |-> urls \ {blobs[filename].blobUrl}]
    ELSE [loadedBlobs |-> blobs, objectURLs |-> urls]

RevokeMedia(filename) ==
  /\ LET after == revokeMedia(loadedBlobs, objectURLs, filename)
     IN /\ objectURLs' = after.objectURLs
        /\ loadedBlobs' = after.loadedBlobs
  /\ last' = [op |-> "revokeMedia", filename |-> filename]
  /\ UNCHANGED <<mediaIndex, loadingPromises, activeTasks, taskQueue, tasks, cleanups>>

\* cleanup(): revoke and clear the cache, clear loadingPromises.  The tasks go on.
\* History: an unsettled task becomes "stale", "staleCached" when its filename
\* was in the cache that this cleanup emptied.
Cleanup ==
  /\ cleanups < MaxCleanups
  /\ cleanups' = cleanups + 1
  /\ objectURLs' = objectURLs \ {loadedBlobs[f].blobUrl : f \in DOMAIN loadedBlobs}
  /\ loadedBlobs' = <<>>
  /\ loadingPromises' = <<>>
  /\ tasks' = [id \in DOMAIN tasks |->
                 [tasks[id] EXCEPT !.gen =
                    IF tasks[id].filename \in DOMAIN loadedBlobs \/ @ = "staleCached"
                      THEN "staleCached" ELSE "stale"]]
  /\ last' = [op |-> "cleanup"]
  /\ UNCHANGED <<mediaIndex, activeTasks, taskQueue>>

Init ==
  /\ InitLoader
  /\ call = Nothing
  /\ returned = Nothing

Next ==
  \/ \E zip \in 1..Len(Archives) : BuildMediaIndex(zip) /\ UNCHANGED <<pureVars, views>>
  \/ \E filename \in Requests : LoadMedia(filename) /\ UNCHANGED <<pureVars, views>>
  \/ \E id \in DOMAIN tasks : ReadOk(id) /\ UNCHANGED <<pureVars, views>>
  \/ \E id \in DOMAIN tasks : ReadFail(id) /\ UNCHANGED <<pureVars, views>>
  \/ \E id \in DOMAIN tasks : ResolveNotFound(id) /\ UNCHANGED <<pureVars, views>>
  \/ \E filename \in Requests : RevokeMedia(filename) /\ UNCHANGED <<pureVars, views>>
  \/ Cleanup /\ UNCHANGED <<pureVars, views>>

Spec == Init /\ [][Next]_vars

\* The pool at its ceiling: the messages of an archive were rendered in one
\* pass, loadMedia was called for six media before any read ended.  Five tasks
\* are reading, the sixth is queued.  From there media are asked for again,
\* reads end, and cleanup() is called with loads active and queued.  Every
\* read that began ends, well or not, and every task that found no entry
\* resumes after its await: the reads of JSZip and the microtask queue do not
\* starve a task.
PoolStarted == <<"aa.jpg", "bb.mp4", "cc.pdf", "dd.webp", "ee.ogg">>
PoolQueued == "zz.gif"
PoolRequests == {"zz.gif"}
PoolIds ==
  {[f |-> f, k |-> 1] : f \in {PoolStarted[n] : n \in 1..Len(PoolStarted)}}
    \cup {[f |-> f, k |-> k] : f \in PoolRequests, k \in 1..(MaxCleanups + 1)}

InitPool ==
  /\ views = <<>>
  /\ mediaIndex = BuiltIndexes[1]
  /\ loadedBlobs = <<>>
  /\ loadingPromises =
       [f \in {PoolStarted[n] : n \in 1..Len(PoolStarted)} \cup {PoolQueued} |->
          [f |-> f, k |-> 1]]
  /\ activeTasks = Len(PoolStarted)
  /\ taskQueue = <<[f |-> PoolQueued, k |-> 1]>>
  /\ tasks =
       [id \in {[f |-> f, k |-> 1] :
                  f \in {PoolStarted[n] : n \in 1..Len(PoolStarted)} \cup {PoolQueued}} |->
          IF id.f = PoolQueued
            THEN [filename |-> id.f, st |-> "queued", entry |-> NoEntry, gen |-> "fresh"]
            ELSE startedTask(BuiltIndexes[1],
                             [filename |-> id.f, st |-> "queued", entry |-> NoEntry,
                              gen |-> "fresh"])]
  /\ objectURLs = {}
  /\ cleanups = 0
  /\ last = [op |-> "loadMedia", filename |-> PoolQueued, kind |-> "promise",
             id |-> [f |-> PoolQueued, k |-> 1]]
  /\ call = Nothing
  /\ returned = Nothing

NextPool ==
  \/ \E filename \in PoolRequests : LoadMedia(filename) /\ UNCHANGED <<pureVars, views>>
  \/ \E id \in DOMAIN tasks : ReadOk(id) /\ UNCHANGED <<pureVars, views>>
  \/ \E id \in DOMAIN tasks : ReadFail(id) /\ UNCHANGED <<pureVars, views>>
  \/ \E id \in DOMAIN tasks : ResolveNotFound(id) /\ UNCHANGED <<pureVars, views>>
  \/ Cleanup /\ UNCHANGED <<pureVars, views>>

ReadEnds(id) == (ReadOk(id) \/ ReadFail(id)) /\ UNCHANGED <<pureVars, views>>
AwaitEnds(id) == ResolveNotFound(id) /\ UNCHANGED <<pureVars, views>>

SpecPool ==
  /\ InitPool
  /\ [][NextPool]_vars
  /\ \A id \in PoolIds : WF_vars(ReadEnds(id)) /\ WF_vars(AwaitEnds(id))

\* One viewing session: an archive is uploaded, media scroll in and out of view.
NextSession ==
  \/ \E zip \in 1..Len(Archives) : BuildMediaIndex(zip) /\ UNCHANGED <<pureVars, views>>
  \/ \E filename \in SessionRequests : LoadMedia(filename) /\ UNCHANGED <<pureVars, views>>
  \/ \E id \in DOMAIN tasks : ReadOk(id) /\ UNCHANGED <<pureVars, views>>
  \/ \E id \in DOMAIN tasks : ReadFail(id) /\ UNCHANGED <<pureVars, views>>
  \/ \E id \in DOMAIN tasks : ResolveNotFound(id) /\ UNCHANGED <<pureVars, views>>
  \/ \E filename \in SessionRequests : RevokeMedia(filename) /\ UNCHANGED <<pureVars, views>>

SpecSession == Init /\ [][NextSession]_vars

\* Materializations against the archives with dotted names: an archive is
\* uploaded, its media are asked for, read and released.
BuildMaterializeIndex(z) ==
  /\ mediaIndex' = MaterializeIndexes[z]
  /\ last' = Nothing
  /\ UNCHANGED <<loadedBlobs, loadingPromises, activeTasks, taskQueue, tasks, objectURLs,
                 cleanups>>

NextMaterialize ==
  \/ \E z \in 1..Len(MaterializeArchives) : BuildMaterializeIndex(z) /\ UNCHANGED <<pureVars, views>>
  \/ \E filename \in MaterializeRequests : LoadMedia(filename) /\ UNCHANGED <<pureVars, views>>
  \/ \E id \in DOMAIN tasks : ReadOk(id) /\ UNCHANGED <<pureVars, views>>
  \/ \E id \in DOMAIN tasks : ReadFail(id) /\ UNCHANGED <<pureVars, views>>
  \/ \E id \in DOMAIN tasks : ResolveNotFound(id) /\ UNCHANGED <<pureVars, views>>
  \/ \E filename \in MaterializeRequests : RevokeMedia(filename) /\ UNCHANGED <<pureVars, views>>

SpecMaterialize == Init /\ [][NextMaterialize]_vars

\* Uploads: handleZipUpload calls cleanup(), awaits JSZip.loadAsync and then
\* calls buildMediaIndex on the entries of the new archive.  call is the upload
\* that is at its await.  The components on screen go on asking for media and
\* the reads in flight go on ending all the while.
UploadRequests == {"photo", "v1.2.pdf"}

StartUpload(z) ==
  /\ call = Nothing
  /\ Cleanup
  /\ call' = [fn |-> "handleZipUpload", file |-> z]
  /\ UNCHANGED <<returned, views>>

IndexUpload ==
  /\ call # Nothing
  /\ call.fn = "handleZipUpload"
  /\ BuildMaterializeIndex(call.file)
  /\ call' = Nothing
  /\ UNCHANGED <<returned, views>>

NextUpload ==
  \/ \E z \in 1..Len(MaterializeArchives) : StartUpload(z)
  \/ IndexUpload
  \/ \E filename \in UploadRequests : LoadMedia(filename) /\ UNCHANGED <<pureVars, views>>
  \/ \E id \in DOMAIN tasks : ReadOk(id) /\ UNCHANGED <<pureVars, views>>
  \/ \E id \in DOMAIN tasks : ReadFail(id) /\ UNCHANGED <<pureVars, views>>
  \/ \E id \in DOMAIN tasks : ResolveNotFound(id) /\ UNCHANGED <<pureVars, views>>

SpecUpload == Init /\ [][NextUpload]_vars

\* The filenames of materialized resources: every extension the index takes,
\* after a plain name and after a sticker name, and some in upper case.
KindStems == {"photo", "sticker_7", "Sticker"}
KindNames ==
  {stem \o "." \o x : stem \in KindStems, x \in IndexedExtensions}
    \cup {"photo.JPG", "Sticker.WEBP", "clip.MP4", "voice.OPUS"}

\* The type field of the LoadedMedia that extractBlobFromEntry builds for a
\* filename.
InitKind ==
  /\ InitLoader
  /\ call \in {[fn |-> "getMediaType", filename |-> f] : f \in KindNames}
  /\ returned = Nothing

GetMediaType ==
  /\ call.fn = "getMediaType"
  /\ returned = Nothing
  /\ returned' = [value |-> getMediaType(call.filename)]
  /\ UNCHANGED <<call, loaderVars, views>>

NextKind == GetMediaType

SpecKind == InitKind /\ [][NextKind]_vars

\* Rebuilds of the index: buildMediaIndex is called with one entry list after
\* another on the same loader, hasMedia is asked in between.
MaxEntries == 2   \* an entry list has at most this many entries

\* The entries an entry list is drawn from.
IndexEntryPool ==
  {[name |-> "Media/", dir |-> TRUE],
   [name |-> "Media/photo.jpg", dir |-> FALSE],
   [name |-> "Other/photo.jpg", dir |-> FALSE],
   [name |-> "pic.PNG", dir |-> FALSE],
   [name |-> "IMG-1.2024.jpeg", dir |-> FALSE],
   [name |-> "clip.mkv", dir |-> FALSE]}

IndexEntryLists ==
  UNION {[1..n -> IndexEntryPool] : n \in 0..MaxEntries}

\* The zip number of the entries of these lists, after those of the archives.
IndexZip == Len(Archives) + Len(MaterializeArchives) + 2

\* The names hasMedia is asked about.
IndexQueries ==
  {"photo", "IMG-1"}

\* Mutant of clear: the previous index is kept, the loop adds to it.
clearNothing(index) == index

\* this.mediaIndex.clear()
clear(index) == <<>>

\* hasMedia(filename)
hasMedia(index, filename) == indexHas(index, filename)

\* buildMediaIndex(fileEntries) on a loader whose index is mediaIndex.
\* dropped and replaced are history: whether the index at the call had a key
\* that the new index lacks, and a key whose first candidate is now another.
BuildIndexOf(fileEntries) ==
  \E built \in {indexEntries(clear(mediaIndex), IndexZip, fileEntries, 1)} :
    /\ mediaIndex' = built
    /\ last' = [op |-> "buildMediaIndex", fileEntries |-> fileEntries,
                dropped |-> \E k \in 1..Len(mediaIndex) :
                              ~indexHas(built, mediaIndex[k].key),
                replaced |-> \E k \in 1..Len(mediaIndex) :
                               /\ indexHas(built, mediaIndex[k].key)
                               /\ indexGet(built, mediaIndex[k].key)[1]
                                    # mediaIndex[k].entries[1]]
    /\ UNCHANGED <<loadedBlobs, loadingPromises, activeTasks, taskQueue, tasks, objectURLs,
                   cleanups>>

HasMedia(filename) ==
  /\ last' = [op |-> "hasMedia", filename |-> filename,
              result |-> hasMedia(mediaIndex, filename)]
  /\ UNCHANGED <<mediaIndex, loadedBlobs, loadingPromises, activeTasks, taskQueue, tasks,
                 objectURLs, cleanups>>

NextIndex ==
  \/ \E fileEntries \in IndexEntryLists : BuildIndexOf(fileEntries) /\ UNCHANGED <<pureVars, views>>
  \/ \E filename \in IndexQueries : HasMedia(filename) /\ UNCHANGED <<pureVars, views>>

SpecIndex == Init /\ [][NextIndex]_vars

(***************************************************************************)
(* LazyMediaComponent                                                      *)
(***************************************************************************)
MaxTimers == 1   \* a component has at most this many cleanup timers pending

\* The components of the chat that is shown and the filename prop of each: two
\* messages show the same file.
Components == {"first", "second", "third"}
ComponentFiles == [c \in Components |-> IF c = "third" THEN "bb.mp4" ELSE "aa.jpg"]

\* The state of a component when it is mounted.  isIntersecting is whether the
\* element is in the viewport, notified whether its observer has an entry to
\* deliver, awaiting the promise loadMedia() is suspended on, timers the number
\* of setTimeout callbacks that have not run.
mounted(filename) ==
  [filename |-> filename, isIntersecting |-> FALSE, notified |-> FALSE, inView |-> FALSE,
   blobUrl |-> Null, loading |-> TRUE, error |-> FALSE, awaiting |-> Null, timers |-> 0]

\* renderContent() reaches the media element with src = blobUrl.
displays(v) == v.inView /\ ~(v.loading /\ ~v.error) /\ ~v.error /\ v.blobUrl # Null

InitView ==
  /\ views = [c \in Components |-> mounted(ComponentFiles[c])]
  /\ mediaIndex = BuiltIndexes[1]
  /\ loadedBlobs = <<>>
  /\ loadingPromises = <<>>
  /\ activeTasks = 0
  /\ taskQueue = <<>>
  /\ tasks = <<>>
  /\ objectURLs = {}
  /\ cleanups = 0
  /\ last = Nothing
  /\ call = Nothing
  /\ returned = Nothing

\* The element of c crosses the threshold of its observer.
Intersects(c) ==
  /\ views' = [views EXCEPT ![c].isIntersecting = ~@, ![c].notified = TRUE]
  /\ UNCHANGED <<loaderVars, pureVars>>

\* The observer of c delivers its entry.  An element that came into view sets
\* inView, and the effect calls loadMedia() when there is no blobUrl and no
\* error: a cached LoadedMedia sets blobUrl, a promise is awaited.  An element
\* that left the view with a blobUrl sets the 30 s timer.  A change of inView
\* or blobUrl runs the effect again: the new observer has an entry to deliver.
ObserverCallback(c) ==
  /\ views[c].notified
  /\ IF views[c].isIntersecting /\ ~views[c].inView
       THEN IF views[c].blobUrl = Null /\ ~views[c].error
              THEN /\ LoadMedia(views[c].filename)
                   /\ views' = [views EXCEPT
                        ![c].inView = TRUE,
                        ![c].notified = TRUE,
                        ![c].blobUrl = IF last'.kind = "cached" THEN last'.media.blobUrl
                                       ELSE @,
                        ![c].loading = last'.kind # "cached",
                        ![c].awaiting = IF last'.kind = "cached" THEN @ ELSE last'.id]
              ELSE /\ views' = [views EXCEPT ![c].inView = TRUE, ![c].notified = TRUE]
                   /\ UNCHANGED loaderVars
     ELSE IF ~views[c].isIntersecting /\ views[c].inView /\ views[c].blobUrl # Null
       THEN /\ views[c].timers < MaxTimers
            /\ views' = [views EXCEPT ![c].notified = FALSE, ![c].timers = @ + 1]
            /\ UNCHANGED loaderVars
     ELSE /\ views' = [views EXCEPT ![c].notified = FALSE]
          /\ UNCHANGED loaderVars
  /\ UNCHANGED pureVars

\* A timer of c runs.  The entry it tests is the one its callback was given,
\* which was not intersecting: revokeMedia(filename) and the state is reset.
TimerFires(c) ==
  /\ views[c].timers > 0
  /\ RevokeMedia(views[c].filename)
  /\ views' = [views EXCEPT
       ![c].timers = @ - 1,
       ![c].blobUrl = Null,
       ![c].inView = FALSE,
       ![c].loading = TRUE,
       ![c].notified = @ \/ views[c].inView \/ views[c].blobUrl # Null]
  /\ UNCHANGED pureVars

\* The components suspended on the promise id go on when it settles: setBlobUrl
\* of the LoadedMedia or setError(true) for null, and setLoading(false).
resumed(id, loadedMedia) ==
  [c \in DOMAIN views |->
     IF views[c].awaiting = id
       THEN [views[c] EXCEPT
               !.awaiting = Null,
               !.loading = FALSE,
               !.blobUrl = IF loadedMedia # Null THEN loadedMedia.blobUrl ELSE @,
               !.error = IF loadedMedia # Null THEN @ ELSE TRUE,
               !.notified = IF loadedMedia # Null THEN TRUE ELSE @]
       ELSE views[c]]

ViewReadOk(id) ==
  /\ ReadOk(id)
  /\ views' = resumed(id, last'.result)
  /\ UNCHANGED pureVars

ViewReadFail(id) ==
  /\ ReadFail(id)
  /\ views' = resumed(id, Null)
  /\ UNCHANGED pureVars

NextView ==
  \/ \E c \in Components : Intersects(c)
  \/ \E c \in Components : ObserverCallback(c)
  \/ \E c \in Components : TimerFires(c)
  \/ \E id \in DOMAIN tasks : ViewReadOk(id)
  \/ \E id \in DOMAIN tasks : ViewReadFail(id)

SpecView == InitView /\ [][NextView]_vars

(***************************************************************************)
(* parseWhatsAppText                                                       *)
(***************************************************************************)
MaxLines == 4   \* a transcript has at most this many lines

\* s.replace(/^[\u200E\u200F\uFEFF]+/, "")
RECURSIVE stripLTR(_)
stripLTR(s) ==
  IF s # "" /\ CharAt(s, 1) \in {LRM, RLM, BOM} THEN stripLTR(SubSeq(s, 2, Len(s))) ELSE s

\* \d{1,2}\/\d{1,2}\/\d{2,4}
SlashDate ==
  Cat(<<Rep(Digit, 1, 2), Lit("/"), Rep(Digit, 1, 2), Lit("/"), Rep(Digit, 2, 4)>>)

\* /^\[(\d{1,2}\/\d{1,2}\/\d{2,4})\s+(\d{1,2}:\d{2}(?::\d{2})?)\]\s+([^:]+):\s*(.*)$/
bracketRe ==
  RegExp(Cat(<<Bol, Lit("["), Grp(1, SlashDate), Many(Space, 1),
               Grp(2, Cat(<<Rep(Digit, 1, 2), Lit(":"), Rep(Digit, 2, 2),
                            Opt(Cat(<<Lit(":"), Rep(Digit, 2, 2)>>))>>)),
               Lit("]"), Many(Space, 1), Grp(3, Many(NotChr({":"}), 1)), Lit(":"),
               Many(Space, 0), Grp(4, Many(Dot, 0)), Eol>>), 4)

\* /^(\d{1,2}\/\d{1,2}\/\d{2,4}),\s+(\d{1,2}:\d{2})(?:\s*(AM|PM))?\s*[-\u2013]\s*([^:]+):\s*(.*)$/i
dashRe ==
  RegExp(Cat(<<Bol, Grp(1, SlashDate), Lit(","), Many(Space, 1),
               Grp(2, Cat(<<Rep(Digit, 1, 2), Lit(":"), Rep(Digit, 2, 2)>>)),
               Opt(Cat(<<Many(Space, 0), Grp(3, Alt(<<LitI("AM"), LitI("PM")>>))>>)),
               Many(Space, 0), Chr({"-", EnDash}), Many(Space, 0),
               Grp(4, Many(NotChr({":"}), 1)), Lit(":"),
               Many(Space, 0), Grp(5, Many(Dot, 0)), Eol>>), 5)

\* Mutant of toFourDigitYear: the pivot one year late.
toFourDigitYearLatePivot(y) ==
  IF Len(y) = 2
    THEN (IF Number(y) < 51 THEN 2000 + Number(y) ELSE 1900 + Number(y))
    ELSE Number(y)

toFourDigitYear(y) ==
  IF Len(y) = 2
    THEN (IF Number(y) < 50 THEN 2000 + Number(y) ELSE 1900 + Number(y))
    ELSE Number(y)

\* Mutant of parseDT: the date read month first.
parseDTMonthFirst(dateStr, timeStr, ampm) ==
  LET dmy == split(dateStr, "/")
      parts == split(timeStr, ":")
      hh == IF ampm # ""
              THEN (Number(parts[1]) % 12) + (IF test(RegExp(LitI("PM"), 0), ampm) THEN 12 ELSE 0)
              ELSE Number(parts[1])
  IN Date(toFourDigitYear(dmy[3]), Number(dmy[1]) - 1, Number(dmy[2]), hh,
          Number(parts[2]), IF Len(parts) > 2 /\ parts[3] # "" THEN Number(parts[3]) ELSE 0)

\* parseDT(dateStr, timeStr, ampm): ampm is "" when the argument is absent.
parseDT(dateStr, timeStr, ampm) ==
  LET dmy == split(dateStr, "/")
      parts == split(timeStr, ":")
      hh == IF ampm # ""
              THEN (Number(parts[1]) % 12) + (IF test(RegExp(LitI("PM"), 0), ampm) THEN 12 ELSE 0)
              ELSE Number(parts[1])
  IN Date(toFourDigitYear(dmy[3]), Number(dmy[2]) - 1, Number(dmy[1]), hh,
          Number(parts[2]), IF Len(parts) > 2 /\ parts[3] # "" THEN Number(parts[3]) ELSE 0)

\* The message a line opens: the two exec calls of the loop body on
\* line = stripLTR(raw).  Null when neither pattern matches.
openedMessage(line) ==
  LET b == exec(bracketRe, line)
      d == exec(dashRe, line)
  IN IF b.ok
       THEN [datetime |-> parseDT(group(b, 1), group(b, 2), ""),
             sender |-> trim(group(b, 3)),
             message |-> stripLTR(group(b, 4))]
     ELSE IF d.ok
       THEN [datetime |-> parseDT(group(d, 1), group(d, 2), group(d, 3)),
             sender |-> trim(group(d, 4)),
             message |-> stripLTR(group(d, 5))]
     ELSE Null

\* Mutant of appendLine: the line break is always inserted.
appendLineAlways(message, raw) ==
  IF raw = "" THEN message \o "\n" ELSE message \o "\n" \o stripLTR(raw)

\* What a line that opens no message adds to current.message:
\* current.message += "\n" for an empty line, and otherwise
\* current.message += (current.message ? "\n" : "") + line.
appendLine(message, raw) ==
  IF raw = "" THEN message \o "\n"
  ELSE message \o (IF message # "" THEN "\n" ELSE "") \o stripLTR(raw)

\* The lines transcripts are written from.  A stamped line is written from its
\* parts: the date and time as exported and the calendar fields they denote, the
\* meridiem as exported (ampm) and as meant (mer), the sender and the text.
Stamped(form, date, D, M, Y, time, H, MI, S, ampm, mer, dash, sender, body) ==
  [form |-> form, date |-> date, D |-> D, M |-> M, Y |-> Y, time |-> time, H |-> H,
   MI |-> MI, S |-> S, ampm |-> ampm, mer |-> mer, dash |-> dash, sender |-> sender,
   body |-> body,
   raw |-> IF form = "bracket"
             THEN "[" \o date \o " " \o time \o "] " \o sender \o ": " \o body
             ELSE date \o ", " \o time \o ampm \o " " \o dash \o " " \o sender \o ": " \o body]

Plain(raw) ==
  [form |-> "plain", date |-> "", D |-> 0, M |-> 0, Y |-> 0, time |-> "", H |-> 0,
   MI |-> 0, S |-> 0, ampm |-> "", mer |-> "", dash |-> "", sender |-> "", body |-> "",
   raw |-> raw]

StampedLines ==
  { Stamped("bracket", "5/1/2024", 5, 1, 2024, "9:05", 9, 5, 0, "", "", "", "Al", "hi"),
    Stamped("bracket", "31/12/99", 31, 12, 1999, "23:59:07", 23, 59, 7, "", "", "",
            "Bo B", ""),
    Stamped("dash", "05/01/24", 5, 1, 2024, "12:30", 12, 30, 0, " AM", "AM", "-",
            "Al", "at 9: ok"),
    Stamped("dash", "1/2/2005", 1, 2, 2005, "1:05", 1, 5, 0, "pm", "PM", "-",
            "+1 23", LRM \o "<attached: a.jpg>"),
    Stamped("dash", "15/6/2024", 15, 6, 2024, "18:45", 18, 45, 0, "", "", EnDash,
            "Bo B ", "ok") }

PlainLines ==
  { Plain(""), Plain("more"), Plain(LRM \o "marked"), Plain("12 apples"),
    Plain("[5/1/2024, 9:05] Al: comma") }

\* The transcripts that are parsed: every sequence of 1..MaxLines lines.
Transcripts == UNION {[1..n -> StampedLines \cup PlainLines] : n \in 1..MaxLines}

transcriptText(lines) == join([k \in 1..Len(lines) |-> lines[k].raw], "\n")

\* One stamped line for each year a stamp can carry: every two-digit year and
\* some four-digit ones, in both line formats.
TwoDigitYears ==
  {CharAt("0123456789", a + 1) \o CharAt("0123456789", b + 1) : a \in 0..9, b \in 0..9}

FourDigitYears == {"1949", "1950", "1999", "2000", "2005", "2024", "2049", "2050"}

YearLine(format, y) ==
  IF format = "bracket"
    THEN "[5/1/" \o y \o " 10:00] Al: hi"
    ELSE "5/1/" \o y \o ", 10:00 - Al: hi"

YearLines ==
  {YearLine(format, y) : format \in {"bracket", "dash"},
                         y \in TwoDigitYears \cup FourDigitYears}

\* openedMessage of every non-empty line that is written, computed once.
OpenedMessages ==
  [raw \in ({l.raw : l \in StampedLines \cup PlainLines} \ {""}) \cup YearLines |->
     openedMessage(stripLTR(raw))]

RECURSIVE parseLines(_, _, _)
\* Mutant of parseLines: the message still open at the end of the input is not
\* pushed.
parseLinesUnflushed(lines, result, current) ==
  IF Len(lines) = 0 THEN result
  ELSE
    LET raw == Head(lines)
        extended == IF current # Null
                      THEN [current EXCEPT !.message = appendLine(@, raw)]
                      ELSE current
    IN IF raw = "" THEN parseLines(Tail(lines), result, extended)
       ELSE IF OpenedMessages[raw] # Null
         THEN parseLines(Tail(lines),
                         IF current # Null THEN Append(result, current) ELSE result,
                         OpenedMessages[raw])
       ELSE parseLines(Tail(lines), result, extended)

\* The loop of parseWhatsAppText over the lines left, and the final push.
parseLines(lines, result, current) ==
  IF Len(lines) = 0
    THEN (IF current # Null THEN Append(result, current) ELSE result)
  ELSE
    LET raw == Head(lines)
        extended == IF current # Null
                      THEN [current EXCEPT !.message = appendLine(@, raw)]
                      ELSE current
    IN IF raw = "" THEN parseLines(Tail(lines), result, extended)
       ELSE IF OpenedMessages[raw] # Null
         THEN parseLines(Tail(lines),
                         IF current # Null THEN Append(result, current) ELSE result,
                         OpenedMessages[raw])
       ELSE parseLines(Tail(lines), result, extended)

parseWhatsAppText(text) == parseLines(splitLines(text), <<>>, Null)

\* A call of parseWhatsAppText on an uploaded transcript.  written is history:
\* the lines the text was written from.
InitParse ==
  /\ InitLoader
  /\ call \in {[fn |-> "parseWhatsAppText", text |-> transcriptText(t), written |-> t] :
                 t \in Transcripts}
  /\ returned = Nothing

ParseWhatsAppText ==
  /\ call.fn = "parseWhatsAppText"
  /\ returned = Nothing
  /\ returned' = [value |-> parseWhatsAppText(call.text)]
  /\ UNCHANGED <<call, loaderVars, views>>

NextParse == ParseWhatsAppText

SpecParse == InitParse /\ [][NextParse]_vars

\* Calls of parseWhatsAppText on the lines of the years.
\* year and format are history: what the line was written from.
InitYear ==
  /\ InitLoader
  /\ call \in {[fn |-> "parseWhatsAppText", text |-> YearLine(format, y), year |-> y,
                 format |-> format] :
                 format \in {"bracket", "dash"}, y \in TwoDigitYears \cup FourDigitYears}
  /\ returned = Nothing

SpecYear == InitYear /\ [][NextParse]_vars

(***************************************************************************)
(* mapMediaToMessages                                                      *)
(***************************************************************************)
MaxMessages == 2   \* mapMediaToMessages is called with at most this many messages

\* Characters and words outside ASCII in the patterns of mapMediaToMessages;
\* each stand-in is one character that no input uses as itself.
FullColon == "|"     \* U+FF1A FULLWIDTH COLON
CjkFu == "{"         \* U+9644
CjkJian == "}"       \* U+4EF6
CjkDang == "$"       \* U+6A94
CjkAn == "%"         \* U+6848
EGrave == "@"        \* U+00E8
ECirc == "!"         \* U+00EA
DStroke == ";"       \* U+0111
IAcute == "*"        \* U+00ED
ThaiAttached == "&"  \* the Thai word for a file attached, seven code points

\* getMediaType of the viewer (it counts opus as audio).
viewerGetMediaType(filename) ==
  LET extension == toLowerCase(pop(split(filename, ".")))
  IN IF extension \in {"jpg", "jpeg", "png", "gif", "webp", "bmp", "heic", "heif"}
       THEN "image"
     ELSE IF extension \in {"webp", "tgs"} /\ includes(filename, "sticker")
       THEN "sticker"
     ELSE IF extension \in {"mp3", "wav", "ogg", "m4a", "aac", "opus"}
       THEN "audio"
     ELSE IF extension \in {"mp4", "mov", "avi", "webm", "3gp"}
       THEN "video"
     ELSE "document"

exts ==
  <<"jpg", "jpeg", "png", "gif", "webp", "bmp", "heic", "heif", "mp4", "mov", "avi",
    "webm", "3gp", "mp3", "wav", "ogg", "m4a", "aac", "opus", "pdf", "doc", "docx",
    "xls", "xlsx", "ppt", "pptx">>

\* exts.join('|') inside a pattern with the i flag
extPattern == Alt([k \in 1..Len(exts) |-> LitI(exts[k])])

\* (IMG|VID|PTT|AUD|DOC|STK) under the i flag
DevicePrefix ==
  Alt(<<LitI("IMG"), LitI("VID"), LitI("PTT"), LitI("AUD"), LitI("DOC"), LitI("STK")>>)

\* The four patterns of looksLikeFilename.
extensionEndRe == RegExp(Cat(<<Lit("."), Grp(1, extPattern), Eol>>), 1)
deviceNameRe ==
  RegExp(Cat(<<Bol, Grp(1, DevicePrefix), Lit("-"), Rep(Digit, 4, 4), Rep(Digit, 2, 2),
               Rep(Digit, 2, 2), LitI("-WA"), Many(Digit, 1)>>), 1)
whatsAppNameRe ==
  RegExp(Cat(<<LitI("WhatsApp"), Many(Space, 1),
               Grp(1, Alt(<<LitI("Image"), LitI("Video"), LitI("Audio"),
                            LitI("Document")>>))>>), 1)
photoNameRe ==
  RegExp(Cat(<<LitI("PHOTO-"), Rep(Digit, 4, 4), Lit("-"), Rep(Digit, 2, 2), Lit("-"),
               Rep(Digit, 2, 2), Lit("-"), Rep(Digit, 2, 2), Lit("-"), Rep(Digit, 2, 2),
               Lit("-"), Rep(Digit, 2, 2)>>), 0)

looksLikeFilename(s) ==
  \E lowered \in {trim(s)} :
    \/ test(extensionEndRe, lowered)
    \/ test(deviceNameRe, lowered)
    \/ test(whatsAppNameRe, lowered)
    \/ test(photoNameRe, lowered)

\* /<[^>]*?:\s*([^>]+)>/gi
attachTagRegex ==
  RegExp(Cat(<<Lit("<"), Lazy(NotChr({">"}), 0), Lit(":"), Many(Space, 0),
               Grp(1, Many(NotChr({">"}), 1)), Lit(">")>>), 1)

\* label [:<fullwidth colon>]? \s* ([^\n]+)   and   label \s* [:<fullwidth colon>-]? ...
CjkPhrase(label) ==
  RegExp(Cat(<<Lit(label), Opt(Chr({":", FullColon})), Many(Space, 0),
               Grp(1, Many(NotChr({"\n"}), 1))>>), 1)

LatinPhrase(label) ==
  RegExp(Cat(<<label, Many(Space, 0), Opt(Chr({":", FullColon, "-"})), Many(Space, 0),
               Grp(1, Many(NotChr({"\n"}), 1))>>), 1)

langPhrases ==
  << CjkPhrase(CjkFu \o CjkJian),
     CjkPhrase(CjkFu \o CjkDang),
     CjkPhrase(CjkDang \o CjkAn),
     LatinPhrase(LitI("attachment")),
     LatinPhrase(Cat(<<LitI("attached"), Many(Space, 0), LitI("file")>>)),
     LatinPhrase(Cat(<<LitI("file"), Many(Space, 0), LitI("attached")>>)) >>

\* The pattern built at lines 152-154, flags gi.
fileNameRegex ==
  RegExp(Grp(1, Alt(<<
    Cat(<<Rep(Digit, 8, 8), LitI("-PHOTO-"), Rep(Digit, 4, 4), Lit("-"), Rep(Digit, 2, 2),
          Lit("-"), Rep(Digit, 2, 2), Lit("-"), Rep(Digit, 2, 2), Lit("-"),
          Rep(Digit, 2, 2), Lit("-"), Rep(Digit, 2, 2), Lit("."),
          Alt(<<LitI("jpg"), LitI("jpeg")>>)>>),
    Cat(<<DevicePrefix, Lit("-"), Many(Digit, 1), LitI("-WA"), Many(Digit, 1), Lit("."),
          extPattern>>),
    Cat(<<Many(Chr(AlnumChars \cup {"_", "-"}), 1), Lit("."), extPattern>>) >>)), 1)

\* The pattern of the replace call at line 169, flag i.
attachedNoteRe ==
  RegExp(Cat(<<Many(Space, 0), Lit("("),
               Grp(1, Alt(<<
                 LitI("file attached"), LitI("arquivo anexado"),
                 Cat(<<LitI("pi"), Chr({"e", "E", EGrave}), LitI("ce jointe")>>),
                 LitI("allegato"), LitI("anlage"), LitI("archivo adjunto"),
                 Lit(CjkFu \o CjkJian), Lit(ThaiAttached),
                 Cat(<<LitI("t"), Chr({"e", "E", ECirc}), LitI("p "), Lit(DStroke),
                       Lit(IAcute), LitI("nh k"), Chr({"e", "E", EGrave}), LitI("m")>>),
                 LitI("berkas terlampir"), LitI("dosya eklendi")>>)),
               Lit(")"), Many(Dot, 0)>>), 1)

\* The candidates of the loop at lines 132-135 over the tag matches ms.
tagRefs(ms) == SelectSeq([j \in 1..Len(ms) |-> trim(group(ms[j], 1))], looksLikeFilename)

\* The candidate of one pattern of langPhrases (lines 148-149).
phraseRef(rx, text) ==
  Only({IF m.ok /\ looksLikeFilename(group(m, 1)) THEN <<trim(group(m, 1))>> ELSE <<>> :
          m \in {exec(rx, text)}})

\* The candidates of the loop at lines 156-158 over the filename matches ms.
nameRefs(ms) == [j \in 1..Len(ms) |-> group(ms[j], 0)]

\* mediaMatches of a message text, in the order they are pushed.
mediaMatchesOf(text) ==
  tagRefs(execAll(attachTagRegex, text, 0))
    \o Flatten([j \in 1..Len(langPhrases) |-> phraseRef(langPhrases[j], text)])
    \o nameRefs(execAll(fileNameRegex, text, 0))

\* justFilename of a candidate: cleanRef.split('/').pop() || cleanRef.
justFilenameOf(mediaRef) ==
  Only({IF pop(split(cleanRef, "/")) = "" THEN cleanRef ELSE pop(split(cleanRef, "/")) :
          cleanRef \in {trim(removeFirst(attachedNoteRe, mediaRef))}})

\* What the body of the forEach pushes to attachedMedia for a basename not yet
\* seen: hasMedia(justFilename), then hasMedia(nameWithoutExt).
\* Mutant of resolvedRef: the reference is attached without asking the index.
resolvedRefUnchecked(index, justFilename) ==
  <<[filename |-> justFilename, type |-> viewerGetMediaType(justFilename)]>>

resolvedRef(index, justFilename) ==
  IF indexHas(index, justFilename)
    THEN <<[filename |-> justFilename, type |-> viewerGetMediaType(justFilename)]>>
  ELSE IF indexHas(index, split(justFilename, ".")[1])
    THEN <<[filename |-> split(justFilename, ".")[1],
            type |-> viewerGetMediaType(justFilename)]>>
  ELSE <<>>

\* The forEach over mediaMatches, the candidates refs left.
RECURSIVE resolveRefs(_, _, _, _)
resolveRefs(index, refs, seen, attachedMedia) ==
  IF Len(refs) = 0 THEN attachedMedia
  ELSE Only({IF justFilename \in seen
               THEN resolveRefs(index, Tail(refs), seen, attachedMedia)
               ELSE resolveRefs(index, Tail(refs), seen \cup {justFilename},
                                attachedMedia \o resolvedRef(index, justFilename)) :
               justFilename \in {justFilenameOf(Head(refs))}})

\* Mutant of withMediaFiles: the attachment mentions are stripped from the text.
withMediaFilesOnly(message, attachedMedia) ==
  [f \in DOMAIN message \cup {"mediaFiles"} |->
     IF f = "mediaFiles" THEN attachedMedia
     ELSE IF f = "message" THEN ""
     ELSE message[f]]

\* { ...message, message: message.message, mediaFiles: attachedMedia }
withMediaFiles(message, attachedMedia) ==
  [f \in DOMAIN message \cup {"mediaFiles"} |->
     IF f = "mediaFiles" THEN attachedMedia ELSE message[f]]

\* The texts of the parsed messages.
MessageTexts ==
  << "hi",
     "<attached: photo.jpg>",
     "IMG-20240105-WA0001.jpg (file attached)",
     "attachment: IMG-20240105-WA0001.jpg (file attached)",
     "<attached: Media/clip.mp4>",
     "see photo.png and photo.jpg",
     "<attached: IMG-1.2024.jpeg>",
     "missing.pdf",
     CjkFu \o CjkJian \o FullColon \o " photo.jpg" >>

\* mediaMatches of every message text, computed once.
MediaMatches ==
  [text \in {MessageTexts[k] : k \in 1..Len(MessageTexts)} |-> mediaMatchesOf(text)]

\* The callback of messages.map.
mapMessage(index, message) ==
  Only({IF Len(attachedMedia) > 0 THEN withMediaFiles(message, attachedMedia)
        ELSE message :
          attachedMedia \in {resolveRefs(index, MediaMatches[message.message], {}, <<>>)}})

mapMediaToMessages(index, messages) ==
  [k \in 1..Len(messages) |-> mapMessage(index, messages[k])]

\* The index built from the entries of the archive the messages belong to.
MapIndex == AttachIndex

\* The message parsed from line n of the transcript.
ParsedMessage(n) ==
  [datetime |-> Date(2024, 0, n, 10, 0, 0),
   sender |-> IF n % 2 = 0 THEN "Al" ELSE "Bo B",
   message |-> MessageTexts[n],
   chatFileName |-> "_chat.txt"]

MessageLists ==
  UNION {[1..n -> {ParsedMessage(k) : k \in 1..Len(MessageTexts)}] : n \in 0..MaxMessages}

\* A call of mapMediaToMessages, before an archive was indexed or after.
InitMap ==
  /\ views = <<>>
  /\ mediaIndex \in {<<>>, MapIndex}
  /\ loadedBlobs = <<>>
  /\ loadingPromises = <<>>
  /\ activeTasks = 0
  /\ taskQueue = <<>>
  /\ tasks = <<>>
  /\ objectURLs = {}
  /\ cleanups = 0
  /\ last = Nothing
  /\ call \in {[fn |-> "mapMediaToMessages", messages |-> ms] : ms \in MessageLists}
  /\ returned = Nothing

MapMediaToMessages ==
  /\ call.fn = "mapMediaToMessages"
  /\ returned = Nothing
  /\ returned' = [value |-> mapMediaToMessages(mediaIndex, call.messages)]
  /\ UNCHANGED <<call, loaderVars, views>>

NextMap == MapMediaToMessages

SpecMap == InitMap /\ [][NextMap]_vars

\* The filenames of the mediaFiles of the messages mapped.
attachedFilenames(messages) ==
  UNION {IF "mediaFiles" \in DOMAIN messages[k]
           THEN {messages[k].mediaFiles[j].filename :
                   j \in 1..Len(messages[k].mediaFiles)}
           ELSE {} : k \in 1..Len(messages)}

\* The messages are mapped and then rendered: a LazyMediaComponent asks the
\* loader for each filename of their mediaFiles, and the reads end.
NextAttach ==
  \/ MapMediaToMessages
  \/ /\ returned # Nothing
     /\ \E filename \in attachedFilenames(returned.value) : LoadMedia(filename)
     /\ UNCHANGED <<pureVars, views>>
  \/ \E id \in DOMAIN tasks : ReadOk(id) /\ UNCHANGED <<pureVars, views>>
  \/ \E id \in DOMAIN tasks : ReadFail(id) /\ UNCHANGED <<pureVars, views>>

SpecAttach == InitMap /\ [][NextAttach]_vars

(***************************************************************************)
(* The splitter: filterChatByRange                                         *)
(***************************************************************************)
\* (\d{1,2}):(\d{2})(?::(\d{2}))? with groups n, n + 1, n + 2
ClockTime(n) ==
  Cat(<<Grp(n, Rep(Digit, 1, 2)), Lit(":"), Grp(n + 1, Rep(Digit, 2, 2)),
        Opt(Cat(<<Lit(":"), Grp(n + 2, Rep(Digit, 2, 2))>>))>>)

\* (\d{1,2})\/(\d{1,2})\/(\d{2,4})
SlashDateGroups ==
  Cat(<<Grp(1, Rep(Digit, 1, 2)), Lit("/"), Grp(2, Rep(Digit, 1, 2)), Lit("/"),
        Grp(3, Rep(Digit, 2, 4))>>)

\* /^[\[\d]/
stampStartRe == RegExp(Cat(<<Bol, Chr({"["} \cup DigitChars)>>), 0)

\* /^\[(\d{1,2})\/(\d{1,2})\/(\d{2,4})(?:,)?\s+(\d{1,2}):(\d{2})(?::(\d{2}))?\]/
chatBracketRe ==
  RegExp(Cat(<<Bol, Lit("["), SlashDateGroups, Opt(Lit(",")), Many(Space, 1),
               ClockTime(4), Lit("]")>>), 6)

\* /^(\d{1,2})\/(\d{1,2})\/(\d{2,4}),\s+(\d{1,2}):(\d{2})(?::(\d{2}))?/
chatSlashRe ==
  RegExp(Cat(<<Bol, SlashDateGroups, Lit(","), Many(Space, 1), ClockTime(4)>>), 6)

\* /^(\d{1,2})\/(\d{1,2})\/(\d{2,4}),\s+(\d{1,2}):(\d{2})\s*(AM|PM)/i
chatMeridiemRe ==
  RegExp(Cat(<<Bol, SlashDateGroups, Lit(","), Many(Space, 1),
               Grp(4, Rep(Digit, 1, 2)), Lit(":"), Grp(5, Rep(Digit, 2, 2)),
               Many(Space, 0), Grp(6, Alt(<<LitI("AM"), LitI("PM")>>))>>), 6)

\* /^(\d{1,2})\.(\d{1,2})\.(\d{4}),\s+(\d{1,2}):(\d{2})(?::(\d{2}))?/
chatDotRe ==
  RegExp(Cat(<<Bol, Grp(1, Rep(Digit, 1, 2)), Lit("."), Grp(2, Rep(Digit, 1, 2)),
               Lit("."), Grp(3, Rep(Digit, 4, 4)), Lit(","), Many(Space, 1),
               ClockTime(4)>>), 6)

\* /^(\d{4})-(\d{2})-(\d{2}),\s+(\d{1,2}):(\d{2})(?::(\d{2}))?/
chatIsoRe ==
  RegExp(Cat(<<Bol, Grp(1, Rep(Digit, 4, 4)), Lit("-"), Grp(2, Rep(Digit, 2, 2)),
               Lit("-"), Grp(3, Rep(Digit, 2, 2)), Lit(","), Many(Space, 1),
               ClockTime(4)>>), 6)

\* /^(\d{4})\/(\d{2})\/(\d{2}),\s+(\d{1,2}):(\d{2})(?::(\d{2}))?/
chatYmdRe ==
  RegExp(Cat(<<Bol, Grp(1, Rep(Digit, 4, 4)), Lit("/"), Grp(2, Rep(Digit, 2, 2)),
               Lit("/"), Grp(3, Rep(Digit, 2, 2)), Lit(","), Many(Space, 1),
               ClockTime(4)>>), 6)

twoDigitYearToFull(y) ==
  IF Number(y) >= 70 THEN 1900 + Number(y) ELSE 2000 + Number(y)

\* isValidDate(d): the time value of d is not NaN.  The fields handed to Date
\* are numbers of digit strings, so every Date built here has a time value.
isValidDate(d) == DOMAIN d = {"day", "sec"}

\* s ? Number(s) : 0
secondsOf(s) == IF s # "" THEN Number(s) ELSE 0

\* y.length === 2 ? twoDigitYearToFull(y) : Number(y)
fullYear(y) == IF Len(y) = 2 THEN twoDigitYearToFull(y) ELSE Number(y)

validOrNull(d) == IF isValidDate(d) THEN d ELSE Null

parseTimestampFromChatLine(line) ==
  LET l == trim(line)
      m1 == exec(chatBracketRe, l)
      m2 == exec(chatSlashRe, l)
      m3 == exec(chatMeridiemRe, l)
      m4 == exec(chatDotRe, l)
      m5 == exec(chatIsoRe, l)
      m6 == exec(chatYmdRe, l)
      dmy(m) == Date(fullYear(group(m, 3)), Number(group(m, 2)) - 1, Number(group(m, 1)),
                     Number(group(m, 4)), Number(group(m, 5)), secondsOf(group(m, 6)))
      ymd(m) == Date(Number(group(m, 1)), Number(group(m, 2)) - 1, Number(group(m, 3)),
                     Number(group(m, 4)), Number(group(m, 5)), secondsOf(group(m, 6)))
  IN IF ~test(stampStartRe, l) THEN Null
     ELSE IF m1.ok THEN validOrNull(dmy(m1))
     ELSE IF m2.ok THEN validOrNull(dmy(m2))
     ELSE IF m3.ok
       THEN validOrNull(
              Date(fullYear(group(m3, 3)), Number(group(m3, 1)) - 1, Number(group(m3, 2)),
                   (Number(group(m3, 4)) % 12)
                     + (IF test(RegExp(LitI("PM"), 0), group(m3, 6)) THEN 12 ELSE 0),
                   Number(group(m3, 5)), 0))
     ELSE IF m4.ok THEN validOrNull(dmy(m4))
     ELSE IF m5.ok THEN validOrNull(ymd(m5))
     ELSE IF m6.ok THEN validOrNull(ymd(m6))
     ELSE Null

\* Mutant of inRange: the bounds are excluded.
inRangeExclusive(d, start, end) == ~timeLeq(d, start) /\ ~timeLeq(end, d)

\* inRange(d, start, end): t >= start.getTime() && t <= end.getTime()
inRange(d, start, end) == timeLeq(start, d) /\ timeLeq(d, end)

\* The lines transcripts are filtered from.
ChatLines ==
  { "[01/01/2024, 10:00:00] A: one",
    "05/01/2024, 10:00 - B: five",
    "10.01.2024, 9:30 - C: ten",
    "[03/01/2024 00:00:00] A: first",
    "2024-01-08, 0:00 - D: last",
    "8/1/24, 0:00:01 - D: late",
    "1/5/24, 10:00 PM - E: evening",
    "2024/01/04, 7:00 - F: four",
    "continued",
    "" }

\* Dashed lines of 5 May 2024, the day and the month being the same number:
\* the hour, and the marker that follows the minutes ("" for a 24-hour line).
MeridiemHours == {"12", "1", "10", "11"}
MeridiemMarkers == {"", " AM", " PM", "PM", " pm"}
MeridiemLine(hour, marker) == "5/5/24, " \o hour \o ":00" \o marker \o " - E: evening"
MeridiemLines == {MeridiemLine(h, m) : h \in MeridiemHours, m \in MeridiemMarkers}

\* parseTimestampFromChatLine of every such line, computed once.
ChatTimestamps ==
  [line \in ChatLines \cup MeridiemLines |-> parseTimestampFromChatLine(line)]

\* The loop of filterChatByRange over the lines left: out and keepCurrentBlock.
RECURSIVE filterLines(_, _, _, _, _)
filterLines(lines, start, end, out, keepCurrentBlock) ==
  IF Len(lines) = 0 THEN out
  ELSE
    LET line == Head(lines)
        ts == ChatTimestamps[line]
        keep == IF ts # Null THEN inRange(ts, start, end) ELSE keepCurrentBlock
    IN filterLines(Tail(lines), start, end,
                   IF keep THEN Append(out, line) ELSE out, keep)

\* Mutant of filterChatByRange: the output ends with a line break.
filterChatByRangeTerminated(chatText, start, end) ==
  join(filterLines(splitLines(chatText), start, end, <<>>, FALSE), "\n") \o "\n"

filterChatByRange(chatText, start, end) ==
  join(filterLines(splitLines(chatText), start, end, <<>>, FALSE), "\n")

\* The ranges asked for: 2024-01-03 .. 2024-01-08, and the single instant
\* 2024-01-05 10:00:00.
Ranges ==
  { [start |-> Date(2024, 0, 3, 0, 0, 0), end |-> Date(2024, 0, 8, 0, 0, 0)],
    [start |-> Date(2024, 0, 5, 10, 0, 0), end |-> Date(2024, 0, 5, 10, 0, 0)] }

ChatTranscripts == UNION {[1..n -> ChatLines] : n \in 1..MaxLines}

\* A call of filterChatByRange.  written is history: the lines of chatText.
InitFilter ==
  /\ InitLoader
  /\ call \in {[fn |-> "filterChatByRange", chatText |-> join(t, eol),
                start |-> r.start, end |-> r.end, written |-> t] :
                 t \in ChatTranscripts, r \in Ranges, eol \in {"\n", "\r\n"}}
  /\ returned = Nothing

FilterChatByRange ==
  /\ call.fn = "filterChatByRange"
  /\ returned = Nothing
  /\ returned' = [value |-> filterChatByRange(call.chatText, call.start, call.end)]
  /\ UNCHANGED <<call, loaderVars, views>>

NextFilter == FilterChatByRange

\* The output of a call is filtered again with the same range: again is what
\* the second call returns.
NextRefilter ==
  \/ FilterChatByRange
  \/ /\ call.fn = "filterChatByRange"
     /\ returned # Nothing
     /\ "again" \notin DOMAIN returned
     /\ returned' = [value |-> returned.value,
                     again |-> filterChatByRange(returned.value, call.start, call.end)]
     /\ UNCHANGED <<call, loaderVars, views>>

SpecRefilter == InitFilter /\ [][NextRefilter]_vars

\* The ranges of 5 May 2024: its morning, its afternoon and evening, the day.
MeridiemRanges ==
  { [start |-> Date(2024, 4, 5, 0, 0, 0), end |-> Date(2024, 4, 5, 11, 59, 59)],
    [start |-> Date(2024, 4, 5, 12, 0, 0), end |-> Date(2024, 4, 5, 23, 59, 59)],
    [start |-> Date(2024, 4, 5, 0, 0, 0), end |-> Date(2024, 4, 5, 23, 59, 59)] }

\* A call of filterChatByRange on a transcript of one dashed line.  stamp is
\* history: the hour and the marker written in the line.
InitMeridiem ==
  /\ InitLoader
  /\ call \in {[fn |-> "filterChatByRange", chatText |-> MeridiemLine(h, m),
                 start |-> r.start, end |-> r.end, written |-> <<MeridiemLine(h, m)>>,
                 stamp |-> [hour |-> h, marker |-> m]] :
                 h \in MeridiemHours, m \in MeridiemMarkers, r \in MeridiemRanges}
  /\ returned = Nothing

SpecMeridiem == InitMeridiem /\ [][NextFilter]_vars

SpecFilter == InitFilter /\ [][NextFilter]_vars

(***************************************************************************)
(* The splitter: splitZipByTimeRangeAndMedia                               *)
(***************************************************************************)
DEFAULT_MEDIA_EXTS ==
  << "jpg", "jpeg", "png", "gif", "webp",
     "mp4", "mov", "avi", "mkv",
     "ogg", "opus", "mp3", "wav", "m4a",
     "pdf", "doc", "docx", "xls", "xlsx", "ppt", "pptx",
     "heic", "heif",
     "aac" >>

\* /_chat\.txt$/i and /^WhatsApp Chat with .*\.txt$/i
DEFAULT_CHAT_CANDIDATES ==
  << RegExp(Cat(<<LitI("_chat.txt"), Eol>>), 0),
     RegExp(Cat(<<Bol, LitI("WhatsApp Chat with "), Many(Dot, 0), LitI(".txt"), Eol>>), 0) >>

\* findChatFile(zip, patterns): the first file a pattern matches, else the first
\* top-level .txt file, else undefined (Null).
findChatFile(zip, patterns) ==
  LET named == {k \in 1..Len(zip) :
                  ~zip[k].dir /\ \E p \in 1..Len(patterns) : test(patterns[p], zip[k].name)}
      texts == {k \in 1..Len(zip) :
                  /\ ~zip[k].dir
                  /\ test(RegExp(Cat(<<LitI(".txt"), Eol>>), 0), zip[k].name)
                  /\ ~includes(zip[k].name, "/")}
      first(K) == zip[CHOOSE k \in K : \A j \in K : k <= j]
  IN IF named # {} THEN first(named)
     ELSE IF texts # {} THEN first(texts)
     ELSE Null

\* getExtension(name): group 1 of /\.([A-Za-z0-9]+)$/, "" for null (the group
\* has at least one character).
getExtension(name) ==
  LET m == exec(RegExp(Cat(<<Lit("."), Grp(1, Many(Chr(AlnumChars), 1)), Eol>>), 1), name)
  IN IF m.ok THEN group(m, 1) ELSE ""

\* (\d{4})-(\d{2})-(\d{2}) with groups n, n + 1, n + 2
DashDate(n) ==
  Cat(<<Grp(n, Rep(Digit, 4, 4)), Lit("-"), Grp(n + 1, Rep(Digit, 2, 2)), Lit("-"),
        Grp(n + 2, Rep(Digit, 2, 2))>>)

\* (\d{2})\.(\d{2})\.(\d{2}) with groups n, n + 1, n + 2
DotTime(n) ==
  Cat(<<Grp(n, Rep(Digit, 2, 2)), Lit("."), Grp(n + 1, Rep(Digit, 2, 2)), Lit("."),
        Grp(n + 2, Rep(Digit, 2, 2))>>)

\* /(WhatsApp (Image|Video|Audio|Document))\s+(\d{4})-(\d{2})-(\d{2})\s+at\s+(\d{2})\.(\d{2})\.(\d{2})/i
mediaWhatsAppRe ==
  RegExp(Cat(<<Grp(1, Cat(<<LitI("WhatsApp "),
                            Grp(2, Alt(<<LitI("Image"), LitI("Video"), LitI("Audio"),
                                         LitI("Document")>>))>>)),
               Many(Space, 1), DashDate(3), Many(Space, 1), LitI("at"), Many(Space, 1),
               DotTime(6)>>), 8)

\* /(\d{4})-(\d{2})-(\d{2})[ _]at[ _]?(\d{2})\.(\d{2})\.(\d{2})/i
mediaAtRe ==
  RegExp(Cat(<<DashDate(1), Chr({" ", "_"}), LitI("at"), Opt(Chr({" ", "_"})),
               DotTime(4)>>), 6)

\* /(\d{4})-(\d{2})-(\d{2})[ _](\d{2})\.(\d{2})\.(\d{2})/i
mediaStampRe == RegExp(Cat(<<DashDate(1), Chr({" ", "_"}), DotTime(4)>>), 6)

\* /^(IMG|VID|PTT|AUD|DOC)-(\d{4})(\d{2})(\d{2})-WA\d+/i
mediaWaRe ==
  RegExp(Cat(<<Bol, Grp(1, Alt(<<LitI("IMG"), LitI("VID"), LitI("PTT"), LitI("AUD"),
                                 LitI("DOC")>>)),
               Lit("-"), Grp(2, Rep(Digit, 4, 4)), Grp(3, Rep(Digit, 2, 2)),
               Grp(4, Rep(Digit, 2, 2)), LitI("-WA"), Many(Digit, 1)>>), 4)

\* /(\d{4})-(\d{2})-(\d{2})/
mediaDashDateRe == RegExp(DashDate(1), 3)

\* /(\d{4})(\d{2})(\d{2})/
mediaPlainDateRe ==
  RegExp(Cat(<<Grp(1, Rep(Digit, 4, 4)), Grp(2, Rep(Digit, 2, 2)),
               Grp(3, Rep(Digit, 2, 2))>>), 3)

parseTimestampFromMediaFilename(name) ==
  LET base == pop(split(name, "/"))
      m1 == exec(mediaWhatsAppRe, base)
      m2 == exec(mediaAtRe, base)
      m3 == exec(mediaStampRe, base)
      m4 == exec(mediaWaRe, base)
      m5 == exec(mediaDashDateRe, base)
      m6 == exec(mediaPlainDateRe, base)
      \* the groups y, y + 1, y + 2 are the date; t, t + 1, t + 2 the time
      at(m, y, t) == Date(Number(group(m, y)), Number(group(m, y + 1)) - 1,
                          Number(group(m, y + 2)), Number(group(m, t)),
                          Number(group(m, t + 1)), Number(group(m, t + 2)))
      on(m, y) == Date(Number(group(m, y)), Number(group(m, y + 1)) - 1,
                       Number(group(m, y + 2)), 0, 0, 0)
  IN IF m1.ok THEN validOrNull(at(m1, 3, 6))
     ELSE IF m2.ok THEN validOrNull(at(m2, 1, 4))
     ELSE IF m3.ok THEN validOrNull(at(m3, 1, 4))
     ELSE IF m4.ok THEN validOrNull(on(m4, 2))
     ELSE IF m5.ok THEN validOrNull(on(m5, 1))
     ELSE IF m6.ok THEN validOrNull(on(m6, 1))
     ELSE Null

\* The entries archives are made of, in archive order: name, dir, the stored
\* modification time and the content.
ZipEntries ==
  << [name |-> "Media/", dir |-> TRUE, date |-> Date(2024, 0, 6, 12, 0, 0), data |-> ""],
     [name |-> "_chat.txt", dir |-> FALSE, date |-> Date(2024, 0, 6, 12, 0, 0),
      data |-> "[01/01/2024, 10:00:00] A: one\n05/01/2024, 10:00 - B: five\ncontinued\n"
                 \o "10.01.2024, 9:30 - C: ten"],
     [name |-> "IMG-20240105-WA0001.jpg", dir |-> FALSE,
      date |-> Date(2024, 1, 1, 8, 0, 0), data |-> "bytes of WA0001"],
     [name |-> "IMG-20240120-WA0002.jpg", dir |-> FALSE,
      date |-> Date(2024, 0, 6, 12, 0, 0), data |-> "bytes of WA0002"],
     [name |-> "Media/photo.JPG", dir |-> FALSE,
      date |-> Date(2024, 0, 3, 0, 0, 0), data |-> "bytes of photo"],
     [name |-> "WhatsApp Video 2024-01-07 at 23.59.59.mp4", dir |-> FALSE,
      date |-> Date(2024, 1, 1, 8, 0, 0), data |-> "bytes of video"],
     [name |-> "notes.md", dir |-> FALSE, date |-> Date(2024, 0, 6, 12, 0, 0),
      data |-> "bytes of notes"],
     [name |-> "old.pdf", dir |-> FALSE, date |-> Date(2024, 0, 8, 0, 0, 1),
      data |-> "bytes of old"] >>

\* The entries of ZipEntries at the positions K, in order.
zipOf(K) ==
  [n \in 1..Cardinality(K) |->
     ZipEntries[CHOOSE k \in K : Cardinality({j \in K : j <= k}) = n]]

\* parseTimestampFromMediaFilename and getExtension of every entry name,
\* computed once.
MediaTimestamps ==
  [name \in {ZipEntries[k].name : k \in 1..Len(ZipEntries)} |->
     parseTimestampFromMediaFilename(name)]
Extensions ==
  [name \in {ZipEntries[k].name : k \in 1..Len(ZipEntries)} |-> getExtension(name)]

\* The extension lists asked for, and new Set(mediaExtensions.map(e =>
\* e.toLowerCase())) of each, computed once.
ExtensionLists == {DEFAULT_MEDIA_EXTS, <<"JPG">>, <<"txt", "jpg">>}
MediaSets ==
  [list \in ExtensionLists |-> {toLowerCase(list[k]) : k \in 1..Len(list)}]

\* The archives split, and findChatFile(zip, DEFAULT_CHAT_CANDIDATES) of each,
\* computed once.
Zips == {zipOf(K) : K \in SUBSET (1..Len(ZipEntries))}
ChatFiles == [zip \in Zips |-> findChatFile(zip, DEFAULT_CHAT_CANDIDATES)]

\* The stored modification time first, the filename only without one.
timestampOfDateFirst(parsed, date) == IF date # Null THEN date ELSE parsed

\* parseTimestampFromMediaFilename(e.name) ?? e.date ?? null, parsed being the
\* first operand.
timestampOf(parsed, date) == IF parsed # Null THEN parsed ELSE date

\* The media loop over the entries left; out is the output archive so far, its
\* files by name.
RECURSIVE copyMedia(_, _, _, _, _, _)
copyMedia(entries, chatEntry, mediaSet, start, end, out) ==
  IF Len(entries) = 0 THEN out
  ELSE
    LET e == Head(entries)
        ext == Extensions[e.name]
        isMedia == IF ext # "" THEN toLowerCase(ext) \in mediaSet ELSE FALSE
        copied == /\ ~e.dir
                  /\ ~(chatEntry # Null /\ e.name = chatEntry.name)
                  /\ isMedia
                  /\ \E ts \in {timestampOf(MediaTimestamps[e.name], e.date)} :
                       ts # Null /\ inRange(ts, start, end)
        next == IF copied
                  THEN mapSet(out, e.name, [as |-> "arraybuffer", data |-> e.data])
                  ELSE out
    IN copyMedia(Tail(entries), chatEntry, mediaSet, start, end, next)

\* The transcript part: out.file(chatEntry.name, filteredChat) on the empty
\* archive.  The transcript is read as a string and written as one.
writeChat(chatEntry, options) ==
  IF options.includeChat /\ chatEntry # Null
    THEN mapSet(<<>>, chatEntry.name,
                [as |-> "string",
                 data |-> filterChatByRange(chatEntry.data, options.start, options.end)])
    ELSE <<>>

\* The media part on the archive out.
writeMedia(zip, chatEntry, options, out) ==
  IF options.includeMedia
    THEN copyMedia(zip, chatEntry, MediaSets[options.mediaExtensions], options.start,
                   options.end, out)
    ELSE out

\* splitZipByTimeRangeAndMedia(zipInput, options): the files of the archive it
\* generates.
splitZipByTimeRangeAndMedia(zip, options) ==
  Only({Only({writeMedia(zip, chatEntry, options, out) :
                out \in {writeChat(chatEntry, options)}}) :
          chatEntry \in {IF options.includeChat THEN ChatFiles[zip] ELSE Null}})

\* The options asked for: the range 2024-01-03 .. 2024-01-08, the two flags, and
\* the default extensions or an override list.
SplitOptions ==
  {[start |-> Date(2024, 0, 3, 0, 0, 0), end |-> Date(2024, 0, 8, 0, 0, 0),
    includeChat |-> c, includeMedia |-> m, mediaExtensions |-> x] :
     c \in BOOLEAN, m \in BOOLEAN,
     x \in ExtensionLists}

\* A call of splitZipByTimeRangeAndMedia on an archive made of some of ZipEntries.
InitSplit ==
  /\ InitLoader
  /\ call \in {[fn |-> "splitZipByTimeRangeAndMedia", zipInput |-> zip, options |-> o] :
                 zip \in Zips, o \in SplitOptions}
  /\ returned = Nothing

SplitZipByTimeRangeAndMedia ==
  /\ call.fn = "splitZipByTimeRangeAndMedia"
  /\ returned = Nothing
  /\ returned' = [value |-> splitZipByTimeRangeAndMedia(call.zipInput, call.options)]
  /\ UNCHANGED <<call, loaderVars, views>>

NextSplit == SplitZipByTimeRangeAndMedia

SpecSplit == InitSplit /\ [][NextSplit]_vars

\* The names the timestamp of a media entry is taken from.  family and the
\* calendar fields say what is written in the name: a device name with date and
\* time, a generic embedded date and time, a date alone, or no date.
StampNames ==
  { [name |-> "WhatsApp Image 2024-01-05 at 10.11.12.jpg", family |-> "device",
     fields |-> <<2024, 1, 5, 10, 11, 12>>],
    [name |-> "Media/whatsapp audio 2024-01-09  at 07.08.09.opus", family |-> "device",
     fields |-> <<2024, 1, 9, 7, 8, 9>>],
    [name |-> "2024-01-05 at 10.11.12.png", family |-> "generic",
     fields |-> <<2024, 1, 5, 10, 11, 12>>],
    [name |-> "photo_2024-01-04_23.59.59.jpg", family |-> "generic",
     fields |-> <<2024, 1, 4, 23, 59, 59>>],
    [name |-> "IMG-20240120-WA0002 2024-01-06 01.02.03.jpg", family |-> "generic",
     fields |-> <<2024, 1, 6, 1, 2, 3>>],
    [name |-> "IMG-20240105-WA0001.jpg", family |-> "date",
     fields |-> <<2024, 1, 5, 0, 0, 0>>],
    [name |-> "2023-12-31/ptt-20240120-wa7.ogg", family |-> "date",
     fields |-> <<2024, 1, 20, 0, 0, 0>>],
    [name |-> "Screenshot 2024-01-07.png", family |-> "date",
     fields |-> <<2024, 1, 7, 0, 0, 0>>],
    [name |-> "20240105_101112.jpg", family |-> "date",
     fields |-> <<2024, 1, 5, 0, 0, 0>>],
    [name |-> "scan 2024-02-30.pdf", family |-> "date",
     fields |-> <<2024, 2, 30, 0, 0, 0>>],
    [name |-> "Media/photo.JPG", family |-> "none", fields |-> <<>>],
    [name |-> "clip-2024.mp4", family |-> "none", fields |-> <<>>] }

\* The stored modification times of an entry; Null is an entry without one.
StampDates ==
  {Date(2024, 0, 6, 12, 0, 0), Date(2024, 1, 1, 8, 0, 0), Date(2023, 5, 1, 0, 0, 0), Null}

\* The ranges asked for.
StampRanges ==
  { [start |-> Date(2024, 0, 3, 0, 0, 0), end |-> Date(2024, 0, 8, 0, 0, 0)],
    [start |-> Date(2024, 0, 5, 0, 0, 0), end |-> Date(2024, 0, 5, 0, 0, 0)] }

\* The body of the media loop for one media entry: its timestamp, and whether
\* the entry is copied.
mediaDecision(name, date, start, end) ==
  Only({[ts |-> ts, copied |-> ts # Null /\ inRange(ts, start, end)] :
          ts \in {timestampOf(parseTimestampFromMediaFilename(name), date)}})

\* One media entry reaching the timestamp step of the media loop.
InitStamp ==
  /\ InitLoader
  /\ call \in {[fn |-> "mediaDecision", entry |-> n, date |-> d, start |-> r.start,
                 end |-> r.end] : n \in StampNames, d \in StampDates, r \in StampRanges}
  /\ returned = Nothing

MediaDecision ==
  /\ call.fn = "mediaDecision"
  /\ returned = Nothing
  /\ returned' = [value |-> mediaDecision(call.entry.name, call.date, call.start, call.end)]
  /\ UNCHANGED <<call, loaderVars, views>>

NextStamp == MediaDecision

SpecStamp == InitStamp /\ [][NextStamp]_vars

(***************************************************************************)
(* Properties of the loader                                                *)
(***************************************************************************)
Started(t) == t.st \in {"reading", "resolving"}

TasksFor(filename) == {id \in DOMAIN tasks : tasks[id].filename = filename}

\* The step is a call of loadMedia(filename): last' is what it returned.
IsLoadMedia(filename) == last'.op = "loadMedia" /\ last'.filename = filename

\* C1: when loadMedia(f) is called while an earlier loadMedia(f) is still pending
\* and no cleanup() ran since that earlier call, the call starts no second
\* materialization and returns the promise of the earlier call.
C1_Coalescing ==
  [][\A f \in Requests :
       \A id \in TasksFor(f) :
         (IsLoadMedia(f) /\ tasks[id].gen = "fresh")
           => /\ tasks' = tasks
              /\ last'.kind = "promise"
              /\ last'.id = id]_vars

\* C2: the number of materializations started and not finished is activeTasks,
\* and it is at least 0 and at most the ceiling of 5.
C2_Ceiling ==
  /\ activeTasks = Cardinality({id \in DOMAIN tasks : Started(tasks[id])})
  /\ activeTasks >= 0
  /\ activeTasks <= concurrencyLimit

C2_Witness == activeTasks = concurrencyLimit /\ Len(taskQueue) > 0 /\ cleanups > 0

\* C3: at most one materialization task, active or queued, exists for a filename.
C3_OneTaskPerFilename ==
  \A f \in Requests : Cardinality(TasksFor(f)) <= 1

\* C4: a request that finds 5 tasks active is appended to the queue; a completion
\* with a non-empty queue starts exactly the oldest queued task; no task starts
\* while another one is queued before it.
C4_Fifo ==
  [][/\ \A id \in (DOMAIN tasks') \ (DOMAIN tasks) :
          activeTasks = concurrencyLimit
            => taskQueue' = Append(taskQueue, id) /\ tasks'[id].st = "queued"
     /\ ((DOMAIN tasks) \ (DOMAIN tasks') # {} /\ taskQueue # <<>>)
          => /\ taskQueue' = Tail(taskQueue)
             /\ Started(tasks'[Head(taskQueue)])
             /\ \A k \in 2..Len(taskQueue) : tasks'[taskQueue[k]].st = "queued"
     /\ \A id \in DOMAIN tasks' :
          (/\ Started(tasks'[id])
           /\ id \in DOMAIN tasks => ~Started(tasks[id])
           /\ taskQueue # <<>>)
            => id = Head(taskQueue)]_vars

C4_Witness ==
  /\ last.op = "settled"
  /\ activeTasks = concurrencyLimit
  /\ Len(taskQueue) > 0

\* C5: right after cleanup() the cache is empty and every blob URL that was
\* cached is revoked; loadMedia(f) never returns from the cache a resource whose
\* materialization was requested before a cleanup() that found f in the cache.
C5_Cleanup ==
  [][/\ last'.op = "cleanup"
          => /\ loadedBlobs' = <<>>
             /\ \A f \in DOMAIN loadedBlobs : loadedBlobs[f].blobUrl \notin objectURLs'
     /\ \A f \in Requests :
          (IsLoadMedia(f) /\ last'.kind = "cached")
            => last'.media.gen # "staleCached"]_vars

\* C6: when the entry read of a task fails, its promise resolves to null, the
\* cache is unchanged, the in-flight record of the filename is gone, the slot is
\* released and the oldest queued task, if any, is started; every other task is
\* left as it was.
C6_Failure ==
  [][(last'.op = "settled" /\ last'.read = "failed")
       => /\ last'.result = Null
          /\ loadedBlobs' = loadedBlobs
          /\ objectURLs' = objectURLs
          /\ last'.filename \notin DOMAIN loadingPromises'
          /\ last'.id \notin DOMAIN tasks'
          /\ IF taskQueue # <<>>
               THEN /\ activeTasks' = activeTasks
                    /\ taskQueue' = Tail(taskQueue)
                    /\ Started(tasks'[Head(taskQueue)])
               ELSE /\ activeTasks' = activeTasks - 1
                    /\ taskQueue' = taskQueue
          /\ \A id \in (DOMAIN tasks) \ {last'.id} :
               /\ id \in DOMAIN tasks'
               /\ (taskQueue = <<>> \/ id # Head(taskQueue)) => tasks'[id] = tasks[id]]_vars

C6_Witness ==
  /\ last.op = "settled"
  /\ last.read = "failed"
  /\ activeTasks = concurrencyLimit
  /\ \E id \in DOMAIN tasks : tasks[id].filename = last.filename

\* The part of a name before its extension: before its last dot, the whole name
\* when it has none.
BeforeExtension(name) ==
  IF includes(name, ".")
    THEN SubSeq(name, 1, Len(name) - Len(pop(split(name, "."))) - 1)
    ELSE name

\* The entry C12 names for a request f: the first one under the key f, or else
\* the first one under the first key that contains the part of f before its
\* extension or whose own part before the extension f contains.
NamedEntry(index, f) ==
  LET near == {k \in 1..Len(index) :
                 \/ includes(index[k].key, BeforeExtension(f))
                 \/ includes(f, BeforeExtension(index[k].key))}
  IN IF indexHas(index, f) THEN indexGet(index, f)[1]
     ELSE IF near # {}
       THEN index[CHOOSE k \in near : \A n \in near : k <= n].entries[1]
     ELSE NoEntry

\* The task id starts in this step.
StartsNow(id) ==
  /\ id \in DOMAIN tasks' /\ Started(tasks'[id])
  /\ id \notin DOMAIN tasks \/ ~Started(tasks[id])

\* C12 as stated: a materialization for f uses the first entry under the key f,
\* or else under the first key in insertion order that contains the part of f
\* before its extension or whose part before the extension f contains; with
\* neither the request resolves to null and caches nothing; a result is cached
\* under the requested name.
C12_Materialization ==
  [][/\ \A id \in DOMAIN tasks' :
          StartsNow(id) => tasks'[id].entry = NamedEntry(mediaIndex, tasks'[id].filename)
     /\ (last'.op = "settled" /\ last'.read = "none")
          => last'.result = Null /\ loadedBlobs' = loadedBlobs
     /\ (last'.op = "settled" /\ last'.read = "ok")
          => /\ last'.filename \in DOMAIN loadedBlobs'
             /\ loadedBlobs'[last'.filename] = last'.result]_vars

\* C15: revokeMedia(f) on a cached f revokes its blob URL and removes exactly
\* the entry f; every other cache entry, the index, the in-flight map,
\* activeTasks and the queue stay as they were.  On an f that is not cached,
\* one whose materialization is in flight included, nothing changes; the
\* in-flight result enters the cache when its read completes, and a revokeMedia
\* of a cached f, at any time, takes it out again.
C15_RevokeFrame ==
  [][/\ last'.op = "revokeMedia" =>
          /\ last'.filename \in DOMAIN loadedBlobs =>
               /\ loadedBlobs[last'.filename].blobUrl \in objectURLs
               /\ objectURLs' = objectURLs \ {loadedBlobs[last'.filename].blobUrl}
               /\ DOMAIN loadedBlobs' = (DOMAIN loadedBlobs) \ {last'.filename}
               /\ \A g \in DOMAIN loadedBlobs' : loadedBlobs'[g] = loadedBlobs[g]
          /\ last'.filename \notin DOMAIN loadedBlobs
               => loadedBlobs' = loadedBlobs /\ objectURLs' = objectURLs
          /\ UNCHANGED <<mediaIndex, loadingPromises, activeTasks, taskQueue, tasks>>
     /\ (last'.op = "settled" /\ last'.read = "ok") =>
          /\ last'.filename \in DOMAIN loadedBlobs'
          /\ loadedBlobs'[last'.filename].blobUrl \in objectURLs']_vars

\* revokeMedia was just called for a filename that is not cached and whose read
\* is in flight, while another filename is cached.
C15_Witness ==
  /\ last.op = "revokeMedia"
  /\ last.filename \notin DOMAIN loadedBlobs
  /\ last.filename \in DOMAIN loadingPromises
  /\ tasks[loadingPromises[last.filename]].st = "reading"
  /\ \E g \in DOMAIN loadedBlobs : g # last.filename

\* The keys the indexes are compared at, besides their own.
ComparedKeys ==
  {"photo.jpg", "photo", "pic.PNG", "pic", "pic.png", "IMG-1.2024.jpeg", "IMG-1.2024",
   "IMG-1", "clip.mkv", "clip", "Media/", "Media"}

\* The index of a new loader after buildMediaIndex(E), for every entry list E,
\* computed once.
BuiltOnce ==
  [fileEntries \in IndexEntryLists |-> indexEntries(<<>>, IndexZip, fileEntries, 1)]

\* C16: after buildMediaIndex(E) the index depends on E alone.  Every key of the
\* previous index that E does not produce is gone, and every key has the
\* hasMedia answer and the first candidate that it has in the index of a new
\* loader built with E once; building with E again changes neither.
C16_RebuildDependsOnEntries ==
  [][last'.op = "buildMediaIndex" =>
       \E once \in {BuiltOnce[last'.fileEntries]},
          again \in {indexEntries(clear(mediaIndex'), IndexZip, last'.fileEntries, 1)} :
         \A key \in ComparedKeys \cup {mediaIndex[k].key : k \in 1..Len(mediaIndex)}
                                 \cup {once[k].key : k \in 1..Len(once)} :
           /\ hasMedia(mediaIndex', key) = hasMedia(once, key)
           /\ hasMedia(again, key) = hasMedia(once, key)
           /\ hasMedia(once, key) =>
                /\ indexGet(mediaIndex', key)[1] = indexGet(once, key)[1]
                /\ indexGet(again, key)[1] = indexGet(once, key)[1]]_vars

\* The index was rebuilt over an index that had a key the new entry list does
\* not produce and a key that it does produce, with another first candidate.
C16_Witness ==
  /\ last.op = "buildMediaIndex"
  /\ last.dropped
  /\ last.replaced
  /\ Len(mediaIndex) > 0

\* The keys of an index under which the entry with a full path is registered.
KeysOf(index, fullPath) ==
  {index[k].key : k \in {j \in 1..Len(index) :
                           \E n \in 1..Len(index[j].entries) :
                             index[j].entries[n].fullPath = fullPath}}

\* C17 as stated: buildMediaIndex registers every non-directory entry whose
\* extension, compared case-insensitively, is a media extension under two
\* keys, its basename and its basename with the extension removed;
\* directories and entries with any other extension are registered under no
\* key.
C17_TwoKeys ==
  [][last'.op = "buildMediaIndex" =>
       \A k \in 1..Len(last'.fileEntries) :
         \E e \in {last'.fileEntries[k]} :
           \E base \in {pop(split(e.name, "/"))} :
             KeysOf(mediaIndex', e.name) =
               IF ~e.dir /\ toLowerCase(pop(split(e.name, "."))) \in IndexedExtensions
                 THEN {base, BeforeExtension(base)}
                 ELSE {}]_vars

\* The kind the table of recognized extensions lists for an extension.
TableKind(extension) ==
  IF extension \in {"jpg", "jpeg", "png", "gif", "webp", "bmp", "heic", "heif", "tgs"}
    THEN "image"
  ELSE IF extension \in {"mp4", "mov", "avi", "webm", "3gp", "mkv"} THEN "video"
  ELSE IF extension \in {"mp3", "wav", "ogg", "m4a", "aac", "opus"} THEN "audio"
  ELSE "document"

\* C24 as stated: the kind of a materialized resource is the kind the table of
\* recognized extensions lists for its extension, except that a webp or tgs
\* file whose name contains "sticker" is a sticker.
C24_KindOfTable ==
  (call.fn = "getMediaType" /\ returned # Nothing) =>
    LET extension == toLowerCase(pop(split(call.filename, ".")))
    IN returned.value =
         IF extension \in {"webp", "tgs"} /\ includes(call.filename, "sticker")
           THEN "sticker"
           ELSE TableKind(extension)

\* C25: every promise that loadMedia creates is settled in the end, with a
\* resource or with null, when every read that began ends: the task of the
\* promise, active or queued, cleaned up over or not, comes to its resolve.
C25_EveryPromiseSettles ==
  \A id \in PoolIds :
    (id \in DOMAIN tasks) ~> (last.op = "settled" /\ last.id = id)

\* A task is queued behind five active ones and a cleanup() ran over it.
C25_Witness ==
  \E id \in DOMAIN tasks :
    /\ tasks[id].st = "queued"
    /\ tasks[id].gen # "fresh"
    /\ activeTasks = concurrencyLimit

\* C26 as stated: no blob URL is leaked.  Every blob URL that was created and
\* is not revoked is the handle of a cache entry, so that revokeMedia or
\* cleanup can still revoke it.
C26_NoLeak ==
  \A blobUrl \in objectURLs :
    \E f \in DOMAIN loadedBlobs : loadedBlobs[f].blobUrl = blobUrl

\* The entries of an index.
EntriesOf(index) ==
  UNION {{index[k].entries[j] : j \in 1..Len(index[k].entries)} : k \in 1..Len(index)}

\* C27 as stated: once a new archive is loaded (cleanup() and then
\* buildMediaIndex on its entries), a resource that is put into the cache was
\* read from an entry of that archive, and the task that puts it there was not
\* requested before the cleanup.
C27_NoStaleResource ==
  [][(call = Nothing /\ cleanups > 0 /\ last'.op = "settled" /\ last'.read = "ok")
       => /\ tasks[last'.id].gen = "fresh"
          /\ tasks[last'.id].entry \in EntriesOf(mediaIndex)]_vars

\* C28: the pool is work-conserving.  Between operations, when the task queue is
\* not empty exactly 5 tasks are active, and every task in the queue waits: no
\* request is left queued while a slot is free.
C28_WorkConserving ==
  /\ Len(taskQueue) > 0 => activeTasks = concurrencyLimit
  /\ \A id \in DOMAIN tasks :
       tasks[id].st = "queued"
         => /\ activeTasks = concurrencyLimit
            /\ \E k \in 1..Len(taskQueue) : taskQueue[k] = id

\* A read ended with two tasks queued: the first was started, the second waits
\* behind five active tasks.
C28_Witness ==
  /\ last.op = "settled"
  /\ Len(taskQueue) > 0
  /\ activeTasks = concurrencyLimit
  /\ \E id \in DOMAIN tasks : tasks[id].st = "queued"

(***************************************************************************)
(* Properties of parseWhatsAppText                                         *)
(***************************************************************************)
\* The positions of the stamped lines of a transcript, and of the lines that
\* follow the stamped line at k up to the next stamped line.
StampedAt(w) == {k \in 1..Len(w) : w[k].form # "plain"}
FollowersOf(w, k) ==
  {j \in (k + 1)..Len(w) : \A i \in (k + 1)..j : w[i].form = "plain"}

\* The record parseWhatsAppText returned for the stamped line at k.
RecordOf(w, k) == returned.value[Cardinality({j \in StampedAt(w) : j <= k})]

\* The calendar value a stamped line denotes: day D, month M, year Y, and the
\* hour H, or H % 12 plus 12 when PM under a meridiem marker.
CalendarOf(l) ==
  LET hour == IF l.mer = "" THEN l.H
              ELSE (l.H % 12) + (IF l.mer = "PM" THEN 12 ELSE 0)
  IN [day |-> dayFromCivil(l.Y, l.M, l.D), sec |-> hour * 3600 + l.MI * 60 + l.S]

\* C9 as stated: a stamped line yields a record with the calendar value of its
\* date and time and with exactly its sender segment and its text segment.
C9_ExactSegments ==
  returned # Nothing =>
    /\ Len(returned.value) = Cardinality(StampedAt(call.written))
    /\ \A k \in StampedAt(call.written) :
         /\ RecordOf(call.written, k).datetime = CalendarOf(call.written[k])
         /\ RecordOf(call.written, k).sender = call.written[k].sender
         /\ FollowersOf(call.written, k) = {}
              => RecordOf(call.written, k).message = call.written[k].body

\* C9: a stamped line yields a record with the calendar value of its date and
\* time (day D, month M, year Y; under a meridiem marker hour % 12, plus 12
\* when PM), with its sender segment trimmed and with its text segment less the
\* direction marks U+200E, U+200F, U+FEFF it begins with.
C9_Record ==
  returned # Nothing =>
    /\ Len(returned.value) = Cardinality(StampedAt(call.written))
    /\ \A k \in StampedAt(call.written) :
         /\ RecordOf(call.written, k).datetime = CalendarOf(call.written[k])
         /\ RecordOf(call.written, k).sender = trim(call.written[k].sender)
         /\ FollowersOf(call.written, k) = {}
              => RecordOf(call.written, k).message = stripLTR(call.written[k].body)

C9_Witness ==
  /\ returned # Nothing
  /\ Len(returned.value) = 3
  /\ \E k \in 1..3 : call.written[k].form = "bracket" /\ call.written[k].S # 0
  /\ \E k \in 1..3 : call.written[k].mer = "PM" /\ CharAt(call.written[k].body, 1) = LRM
  /\ \E k \in 1..3 : call.written[k].mer = "AM" /\ call.written[k].H = 12

\* The text that grows from first by appending the lines in order: each line
\* without its leading direction marks and after a line break, but a non-empty
\* line joins a text that is still empty without the line break.
RECURSIVE AppendedText(_, _)
AppendedText(first, raws) ==
  IF Len(raws) = 0 THEN first
  ELSE AppendedText(
         IF Head(raws) # "" /\ first = "" THEN stripLTR(Head(raws))
         ELSE first \o "\n" \o stripLTR(Head(raws)),
         Tail(raws))

\* The lines that follow the stamped line at k, in order.
FollowingRaws(w, k) ==
  [j \in 1..Cardinality(FollowersOf(w, k)) |-> w[k + j].raw]

\* C10 as stated: the text of a stamped line followed by N lines that open no
\* message is its first segment and the N lines joined by line breaks.
C10_JoinedLines ==
  returned # Nothing =>
    \A k \in StampedAt(call.written) :
      FollowersOf(call.written, k) # {}
        => RecordOf(call.written, k).message =
             join(<<stripLTR(call.written[k].body)>> \o FollowingRaws(call.written, k),
                  "\n")

\* C10: a stamped line followed by N lines that open no message yields one record;
\* its text is the first segment with the N lines appended in order, each
\* without its leading direction marks and after a line break, except that a
\* non-empty line appended while the text is still empty gets no line break.
C10_AppendedLines ==
  returned # Nothing =>
    /\ Len(returned.value) = Cardinality(StampedAt(call.written))
    /\ \A k \in StampedAt(call.written) :
         FollowersOf(call.written, k) # {}
           => RecordOf(call.written, k).message =
                AppendedText(stripLTR(call.written[k].body),
                             FollowingRaws(call.written, k))

C10_Witness ==
  /\ returned # Nothing
  /\ Len(call.written) = 3
  /\ call.written[1].form = "bracket" /\ call.written[1].body = ""
  /\ call.written[2].raw = LRM \o "marked"
  /\ call.written[3].raw = ""
  /\ returned.value[1].message = "marked\n"

\* C11: parseWhatsAppText returns one record per line that opens a message, in
\* the order of those lines whatever their datetimes (record n has the datetime
\* and the sender of the n-th such line); the lines before the first of them
\* add to no record (no record at all when no line opens a message, and the
\* first record holds only its own line and the lines after it); the message
\* open at the end of the input is returned as the last record.
C11_RecordPerStampedLine ==
  returned # Nothing =>
    /\ Len(returned.value) = Cardinality(StampedAt(call.written))
    /\ \A n \in 1..Len(returned.value) :
         \E k \in StampedAt(call.written) :
           /\ Cardinality({j \in StampedAt(call.written) : j <= k}) = n
           /\ returned.value[n].datetime = CalendarOf(call.written[k])
           /\ returned.value[n].sender = trim(call.written[k].sender)
           /\ (n = 1 \/ k = Len(call.written))
                => returned.value[n].message =
                     AppendedText(stripLTR(call.written[k].body),
                                  FollowingRaws(call.written, k))

\* Lines that open no message come first, the records are not in the order of
\* their datetimes, and the last line opens the last record.
C11_Witness ==
  /\ returned # Nothing
  /\ call.written[1].form = "plain" /\ call.written[1].raw # ""
  /\ Len(returned.value) >= 2
  /\ ~timeLeq(returned.value[1].datetime, returned.value[2].datetime)
  /\ call.written[Len(call.written)].form # "plain"

\* C18: the parser reads a two-digit year yy as 2000 + yy when yy < 50 and as
\* 1900 + yy when yy >= 50, for every yy in 00..99, and a four-digit year as
\* itself: the record of a line stamped 5/1/y 10:00 has that calendar date.
C18_YearPivot ==
  (returned # Nothing /\ "year" \in DOMAIN call) =>
    /\ Len(returned.value) = 1
    /\ \E n \in {Number(call.year)} :
         returned.value[1].datetime =
           [day |-> dayFromCivil(IF Len(call.year) = 4 THEN n
                                 ELSE IF n < 50 THEN 2000 + n ELSE 1900 + n, 1, 5),
            sec |-> 36000]

\* The line stamped with the year 50 was parsed: its record is of 1950, and
\* not of 2050.
C18_Witness ==
  /\ returned # Nothing
  /\ "year" \in DOMAIN call
  /\ call.year = "50"
  /\ returned.value[1].datetime.day = dayFromCivil(1950, 1, 5)
  /\ returned.value[1].datetime.day # dayFromCivil(2050, 1, 5)

(***************************************************************************)
(* Properties of mapMediaToMessages                                        *)
(***************************************************************************)
\* The distinct names of a sequence, in the order of their first occurrence.
RECURSIVE FirstOccurrences(_, _)
FirstOccurrences(names, seen) ==
  IF Len(names) = 0 THEN <<>>
  ELSE IF Head(names) \in seen THEN FirstOccurrences(Tail(names), seen)
  ELSE <<Head(names)>> \o FirstOccurrences(Tail(names), seen \cup {Head(names)})

\* The distinct cleaned candidate basenames of a message text.
CandidateBasenames(text) ==
  \* bound once: the candidates of the text, in the order the code finds them
  Only({IF Len(refs) = 0 THEN <<>>
        ELSE FirstOccurrences([j \in 1..Len(refs) |-> justFilenameOf(refs[j])], {})
        : refs \in {MediaMatches[text]}})

\* The names C13 attaches for the basenames: the basename when it is an index
\* key, or else the basename without its extension when that is one.
RECURSIVE NamedAttachments(_, _)
NamedAttachments(index, basenames) ==
  IF Len(basenames) = 0 THEN <<>>
  ELSE (IF indexHas(index, Head(basenames)) THEN <<Head(basenames)>>
        ELSE IF indexHas(index, BeforeExtension(Head(basenames)))
          THEN <<BeforeExtension(Head(basenames))>>
        ELSE <<>>)
       \o NamedAttachments(index, Tail(basenames))

\* The filenames of the mediaFiles of a returned message, none when it has no
\* mediaFiles.
AttachedNames(message) ==
  IF "mediaFiles" \in DOMAIN message
    THEN [j \in 1..Len(message.mediaFiles) |-> message.mediaFiles[j].filename]
    ELSE <<>>

\* C13 as stated: each distinct cleaned candidate basename of a message is
\* resolved once, attached under the full basename when that is an index key,
\* otherwise under the basename with its extension removed when that is an
\* index key, otherwise dropped; a message in which no candidate resolves is
\* returned with no mediaFiles.
C13_Resolution ==
  returned # Nothing =>
    \A k \in 1..Len(call.messages) :
      /\ AttachedNames(returned.value[k]) =
           NamedAttachments(mediaIndex, CandidateBasenames(call.messages[k].message))
      /\ "mediaFiles" \in DOMAIN returned.value[k]
           => Len(returned.value[k].mediaFiles) > 0

\* C14: mapMediaToMessages returns as many records as it was given, in the
\* same order, each with the datetime, sender and message text of its input
\* record; a record differs from its input at most by an added mediaFiles,
\* and the media index and the cache of the loader are left as they were.
C14_RecordsPreserved ==
  [][returned' # Nothing =>
       /\ Len(returned'.value) = Len(call.messages)
       /\ \A k \in 1..Len(call.messages) :
            /\ returned'.value[k].datetime = call.messages[k].datetime
            /\ returned'.value[k].sender = call.messages[k].sender
            /\ returned'.value[k].message = call.messages[k].message
            /\ DOMAIN returned'.value[k] \subseteq
                 DOMAIN call.messages[k] \cup {"mediaFiles"}
            /\ \A field \in DOMAIN call.messages[k] :
                 /\ field \in DOMAIN returned'.value[k]
                 /\ returned'.value[k][field] = call.messages[k][field]
       /\ mediaIndex' = mediaIndex
       /\ loadedBlobs' = loadedBlobs]_vars

\* Two records were mapped, the second one got mediaFiles and the first did not.
C14_Witness ==
  /\ returned # Nothing
  /\ Len(call.messages) = 2
  /\ Len(returned.value) = 2
  /\ "mediaFiles" \notin DOMAIN returned.value[1]
  /\ "mediaFiles" \in DOMAIN returned.value[2]
  /\ returned.value[2].message = call.messages[2].message
  /\ returned.value[2].message # ""

\* C29: every filename attached by mapMediaToMessages is a key of the media
\* index; a task that loadMedia starts for it against that index reads the
\* first entry under that key, found by the exact lookup and not by the
\* containment pass, and its promise resolves to null only when the read fails.
C29_AttachedIsKey ==
  /\ returned # Nothing
       => \A f \in attachedFilenames(returned.value) : indexHas(mediaIndex, f)
  /\ \A id \in DOMAIN tasks :
       /\ tasks[id].st = "reading"
       /\ indexHas(mediaIndex, tasks[id].filename)
       /\ tasks[id].entry = indexGet(mediaIndex, tasks[id].filename)[1]
  /\ (last.op = "settled" /\ last.result = Null) => last.read = "failed"

\* The resource of a reference attached under a basename without its extension
\* was read.
C29_Witness ==
  /\ last.op = "settled"
  /\ last.read = "ok"
  /\ last.filename = "IMG-1"
  /\ \E k \in 1..Len(call.messages) : call.messages[k].message = "<attached: IMG-1.2024.jpeg>"

(***************************************************************************)
(* Properties of the splitter                                              *)
(***************************************************************************)
\* The positions of the lines of w that filterChatByRange is to emit: the stamp
\* lines with start <= timestamp <= end and the other lines whose nearest stamp
\* line before them is such a line.
KeptAt(w, start, end) ==
  {k \in 1..Len(w) :
     \E j \in 1..k :
       /\ ChatTimestamps[w[j]] # Null
       /\ \A i \in (j + 1)..k : ChatTimestamps[w[i]] = Null
       /\ timeLeq(start, ChatTimestamps[w[j]])
       /\ timeLeq(ChatTimestamps[w[j]], end)}

\* The lines of w at the positions K, in order.
LinesAt(w, K) ==
  [n \in 1..Cardinality(K) |-> w[CHOOSE k \in K : Cardinality({j \in K : j <= k}) = n]]

\* C7: filterChatByRange emits, in order, exactly the stamp lines whose
\* timestamp is in [start, end], both bounds included, and the other lines whose
\* nearest preceding stamp line was emitted; lines before the first stamp line
\* are dropped.  Of blocks dated 2024-01-01, 2024-01-05 and 2024-01-10 the range
\* 2024-01-03 .. 2024-01-08 leaves the 2024-01-05 block.
C7_KeptBlocks ==
  returned # Nothing =>
    /\ returned.value
         = join(LinesAt(call.written, KeptAt(call.written, call.start, call.end)), "\n")
    /\ (/\ call.written = <<"[01/01/2024, 10:00:00] A: one", "05/01/2024, 10:00 - B: five",
                            "10.01.2024, 9:30 - C: ten">>
        /\ call.start = [day |-> dayFromCivil(2024, 1, 3), sec |-> 0]
        /\ call.end = [day |-> dayFromCivil(2024, 1, 8), sec |-> 0])
         => returned.value = "05/01/2024, 10:00 - B: five"

C7_Witness ==
  /\ returned # Nothing
  /\ call.written = <<"[03/01/2024 00:00:00] A: first", "continued",
                      "8/1/24, 0:00:01 - D: late">>
  /\ call.start = [day |-> dayFromCivil(2024, 1, 3), sec |-> 0]
  /\ call.end = [day |-> dayFromCivil(2024, 1, 8), sec |-> 0]
  /\ returned.value = "[03/01/2024 00:00:00] A: first\ncontinued"

\* The transcript of an archive, as the splitter locates it; Null if it has none.
TranscriptOf(zip) == ChatFiles[zip]

\* The timestamp of a media entry: filename-derived, else last-modified.
MediaTimeOf(e) ==
  IF MediaTimestamps[e.name] # Null THEN MediaTimestamps[e.name] ELSE e.date

\* C8: with media included, the output archive has a media entry named n iff
\* the input has a non-directory, non-transcript entry n whose extension is in
\* the active media-extension set and whose timestamp is in [start, end]; the
\* entry has the name and the bytes of the input entry.
C8_MediaFilter ==
  (returned # Nothing /\ call.options.includeMedia) =>
    LET zip == call.zipInput
        out == returned.value
        transcript == TranscriptOf(zip)
        active == MediaSets[call.options.mediaExtensions]
        isMediaEntry(n) == n \in DOMAIN out /\ out[n].as = "arraybuffer"
    IN \A n \in {zip[k].name : k \in 1..Len(zip)} \cup DOMAIN out :
         /\ isMediaEntry(n)
              <=> \E k \in 1..Len(zip) :
                    /\ zip[k].name = n
                    /\ ~zip[k].dir
                    /\ zip[k] # transcript
                    /\ Extensions[n] # ""
                    /\ toLowerCase(Extensions[n]) \in active
                    /\ timeLeq(call.options.start, MediaTimeOf(zip[k]))
                    /\ timeLeq(MediaTimeOf(zip[k]), call.options.end)
         /\ isMediaEntry(n)
              => \E k \in 1..Len(zip) : zip[k].name = n /\ zip[k].data = out[n].data

\* C19 as stated: the output archive has a transcript entry iff includeChat is
\* true and the input has a transcript; it has no media entry when
\* includeMedia is false; and on an input without a transcript the split
\* completes and its archive holds only media entries that are in range.
C19_TranscriptAndMedia ==
  returned # Nothing =>
    LET zip == call.zipInput
        out == returned.value
        transcript == TranscriptOf(zip)
    IN /\ (transcript # Null /\ transcript.name \in DOMAIN out)
            <=> (call.options.includeChat /\ transcript # Null)
       /\ ~call.options.includeMedia
            => \A n \in DOMAIN out : transcript # Null /\ n = transcript.name
       /\ transcript = Null
            => \A n \in DOMAIN out :
                 \E k \in 1..Len(zip) :
                   /\ zip[k].name = n
                   /\ ~zip[k].dir
                   /\ zip[k].data = out[n].data
                   /\ timeLeq(call.options.start, MediaTimeOf(zip[k]))
                   /\ timeLeq(MediaTimeOf(zip[k]), call.options.end)

\* C22 as stated: whatever includeChat, includeMedia and mediaExtensions are,
\* the transcript entry of the input archive is not copied into the output by
\* the media loop: the output holds no entry of the transcript's name that was
\* written as bytes, with the unfiltered text.
C22_TranscriptNotMedia ==
  returned # Nothing =>
    LET out == returned.value
        transcript == TranscriptOf(call.zipInput)
    IN transcript # Null =>
         ~(/\ transcript.name \in DOMAIN out
           /\ out[transcript.name].as = "arraybuffer"
           /\ out[transcript.name].data = transcript.data)

\* The 24-hour time a dashed line of 5 May 2024 with an AM/PM marker stands
\* for: hour % 12, plus 12 when the marker is PM.
ConvertedTime(stamp) ==
  Date(2024, 4, 5,
       (Number(stamp.hour) % 12) + (IF stamp.marker \in {" PM", "PM", " pm"} THEN 12 ELSE 0),
       0, 0)

\* C23 as stated: a dashed line with an AM/PM marker is kept by the filter
\* exactly when its time, converted to 24-hour time (hour % 12, plus 12 when
\* PM), is in the range.
C23_MeridiemConverted ==
  (returned # Nothing /\ "stamp" \in DOMAIN call /\ call.stamp.marker # "") =>
    ((returned.value = call.chatText)
       <=> (/\ timeLeq(call.start, ConvertedTime(call.stamp))
            /\ timeLeq(ConvertedTime(call.stamp), call.end)))

\* s is t with some of its elements left out, the others in their order.
RECURSIVE IsSubsequence(_, _)
IsSubsequence(s, t) ==
  IF Len(s) = 0 THEN TRUE
  ELSE IF Len(t) = 0 THEN FALSE
  ELSE IF Head(s) = Head(t) THEN IsSubsequence(Tail(s), Tail(t))
  ELSE IsSubsequence(s, Tail(t))

\* The lines of a text the filter returned: none for the empty text, which the
\* filter returns when it kept no line.
LinesOf(text) == IF text = "" THEN <<>> ELSE split(text, "\n")

C20_ReferenceTracked ==
  \A c \in DOMAIN views : displays(views[c]) => views[c].blobUrl \in objectURLs

\* The timestamp the name of the call writes: its calendar fields, the month
\* counted from 1.
WrittenTime(fields) ==
  Date(fields[1], fields[2] - 1, fields[3], fields[4], fields[5], fields[6])

\* C21: the timestamp of a media entry is the one written in its filename, with
\* its time for a device or generic date/time name and at midnight for a
\* date-only name, whatever the stored modification time is; the modification
\* time is the timestamp only of a name without a date; an entry is copied
\* only with a timestamp, and one without any is left out.
C21_FilenameFirst ==
  (call.fn = "mediaDecision" /\ returned # Nothing) =>
    /\ call.entry.family # "none" => returned.value.ts = WrittenTime(call.entry.fields)
    /\ call.entry.family = "none" => returned.value.ts = call.date
    /\ returned.value.copied =
         (/\ returned.value.ts # Null
          /\ timeLeq(call.start, returned.value.ts)
          /\ timeLeq(returned.value.ts, call.end))
    /\ (call.entry.family = "none" /\ call.date = Null) => ~returned.value.copied

\* A date-only name of a day out of the range with a modification time in the
\* range is decided: it is left out.
C21_Witness ==
  /\ call.fn = "mediaDecision"
  /\ returned # Nothing
  /\ call.entry.name = "2023-12-31/ptt-20240120-wa7.ogg"
  /\ call.date = Date(2024, 0, 6, 12, 0, 0)
  /\ call.start = Date(2024, 0, 3, 0, 0, 0)
  /\ ~returned.value.copied

====
